---- MODULE Spec2Model ----
(***************************************************************************)
(* chesskimo: the 0x88 board, the check-and-pin annotator, the legal move  *)
(* generator, move application and perft, as a state machine.              *)
(***************************************************************************)
EXTENDS Integers, Sequences, FiniteSets, TLC

----------------------------------------------------------------------------
(* base/base.go: pieces, colours, squares *)

NONE == 0
OTB == 127
BLACK == 0
WHITE == 1
COLOR_ONLY_MASK == 1
COLOR_TEST_MASK == 129
EMPTY == 128
PAWN == 2
KNIGHT == 4
BISHOP == 8
ROOK == 16
QUEEN == 32
KING == 64
PIECE_MASK == 126

BPAWN == PAWN + BLACK
BKNIGHT == KNIGHT + BLACK
BBISHOP == BISHOP + BLACK
BROOK == ROOK + BLACK
BQUEEN == QUEEN + BLACK
BKING == KING + BLACK
WPAWN == PAWN + WHITE
WKNIGHT == KNIGHT + WHITE
WBISHOP == BISHOP + WHITE
WROOK == ROOK + WHITE
WQUEEN == QUEEN + WHITE
WKING == KING + WHITE

Colors == {BLACK, WHITE}
Byte == 0..255

(* a computed array: the function f held as the table of its values; a
   computed list: the sequence s held as the tuple of its elements *)
Array(f) == f @@ << >>
List(s) == s \o << >>

(* uint8 and int8 conversions of Go: wrap modulo 2^8 *)
U8(x) == x % 256
I8(x) == IF x % 256 >= 128 THEN (x % 256) - 256 ELSE x % 256

(* a & b on bytes, bit by bit from the lowest *)
RECURSIVE BitAndSlow(_, _)
BitAndSlow(a, b) ==
    IF a = 0 \/ b = 0 THEN 0
    ELSE (a % 2) * (b % 2) + 2 * BitAndSlow(a \div 2, b \div 2)

(* a & m for every pair of bytes, tabulated once *)
AndTable == [m \in Byte |-> [a \in Byte |-> BitAndSlow(a, m)]]
BitAnd(a, m) == AndTable[m][a]
BitOr(a, b) == a + b - BitAnd(a, b)

(* Color.FlipColor *)
Flip(c) == IF c = 0 THEN 1 ELSE 0

(* Piece.PieceColor *)
PieceColor(p) == BitAnd(p, COLOR_ONLY_MASK)

(* Piece.HasColor *)
HasColor(p, color) == BitAnd(p, COLOR_TEST_MASK) = color

(* Piece.IsType, used by board.go under the name Contains *)
Contains(p, piece) == BitAnd(p, piece) # 0

(* Square.IsEmpty *)
IsEmpty(p) == p = EMPTY

(* Square.IsLegal, used by board.go under the name OnBoard *)
OnBoard(sq) == BitAnd(sq, 136) = 0

(* Square.Rank, Square.File *)
Rank(sq) == sq \div 16
File(sq) == BitAnd(sq, 7)

----------------------------------------------------------------------------
(* direction and offset tables of package base (declared outside src/) *)

KING_DIRS == <<1, -1, 16, -16, 15, 17, -15, -17>>
DIAGONAL_DIRS == <<15, 17, -15, -17>>
ORTHOGONAL_DIRS == <<1, -1, 16, -16>>
KNIGHT_DIRS == <<14, 18, 31, 33, -14, -18, -31, -33>>

(* indexed by colour: BLACK = 0, WHITE = 1 *)
PAWN_PUSH_DIRS ==
    [c \in Colors |-> IF c = WHITE THEN 16 ELSE -16]
PAWN_CAPTURE_DIRS ==
    [c \in Colors |-> IF c = WHITE THEN <<15, 17>> ELSE <<-15, -17>>]
PAWN_BASE_RANK ==
    [c \in Colors |-> IF c = WHITE THEN 1 ELSE 6]
PAWN_PROMOTE_RANK ==
    [c \in Colors |-> IF c = WHITE THEN 7 ELSE 0]

CASTLING_ROOK_SHORT ==
    [c \in Colors |-> IF c = WHITE THEN 7 ELSE 119]
CASTLING_ROOK_LONG ==
    [c \in Colors |-> IF c = WHITE THEN 0 ELSE 112]
CASTLING_PATH_SHORT ==
    [c \in Colors |-> IF c = WHITE THEN <<5, 6>> ELSE <<117, 118>>]
CASTLING_PATH_LONG ==
    [c \in Colors |-> IF c = WHITE THEN <<3, 2, 1>> ELSE <<115, 114, 113>>]
CASTLING_DETECT_SHORT ==
    [c \in Colors |-> IF c = WHITE THEN <<4, 6>> ELSE <<116, 118>>]
CASTLING_DETECT_LONG ==
    [c \in Colors |-> IF c = WHITE THEN <<4, 2>> ELSE <<116, 114>>]

(* Square.IsPawnBaseRank, Square.IsPawnPromoting *)
IsPawnBaseRank(sq, color) == PAWN_BASE_RANK[color] = Rank(sq)
IsPawnPromoting(sq, color) == PAWN_PROMOTE_RANK[color] = Rank(sq)

(* Square.CreatesEnPassent: the move spans two ranks *)
CreatesEnPassent(from, to) == from - to = 32 \/ to - from = 32

(* Square.Diff: the packed delta that indexes the difference tables *)
Diff(sq, other) == U8(119 + (I8(sq) - I8(other)))

(* Square.ToInfoIndex: the twin of a playable square on the right half *)
ToInfoIndex(sq) == IF BitAnd(sq, 8) = 0 THEN sq + 8 ELSE sq

(* info bytes *)
INFO_NONE == 0
INFO_PIN_FIRST == 1
INFO_MASK_CHECK == 16
INFO_MASK_FORBIDDEN_ESCAPE == 32
INFO_MASK_MAYBE_PINNED == 64

(* Info.Set, Info.IsSet, Info.Pinval *)
InfoSet(info, mask) == BitOr(info, mask)
IsSet(info, mask) == BitAnd(info, mask) # 0
Pinval(info) == BitAnd(info, 15)

CHECK_NONE == OTB
CHECK_DOUBLE_CHECK == 15
CHECK_CHECKMATE == 31

----------------------------------------------------------------------------
(* board.go: Lookup0x88 and the difference tables *)

Lookup0x88Table ==
    <<  0,   1,   2,   3,   4,   5,   6,   7,
       16,  17,  18,  19,  20,  21,  22,  23,
       32,  33,  34,  35,  36,  37,  38,  39,
       48,  49,  50,  51,  52,  53,  54,  55,
       64,  65,  66,  67,  68,  69,  70,  71,
       80,  81,  82,  83,  84,  85,  86,  87,
       96,  97,  98,  99, 100, 101, 102, 103,
      112, 113, 114, 115, 116, 117, 118, 119 >>
Lookup0x88 == [i \in 0..63 |-> Lookup0x88Table[i + 1]]
Playable == {Lookup0x88[i] : i \in 0..63}

Max(S) == CHOOSE x \in S : \A y \in S : y <= x

(* the inner for-loop over steps: does the ray from `from` along dir meet `to`
   before it leaves the board (a ray has at most seven squares) *)
RayMeets(from, to, dir) ==
    \E n \in 1..7 : /\ U8(I8(from) + I8(n * dir)) = to
                     /\ \A steps \in 1..n : OnBoard(U8(I8(from) + I8(steps * dir)))

(* the first direction of dirs, in the order of the loop, among those
   numbered in hits; 0 when hits is empty *)
FirstOf(dirs, hits) ==
    IF hits = {} THEN 0 ELSE dirs[CHOOSE i \in hits : \A j \in hits : i <= j]

(* the first direction whose step (for kings and knights) or ray (for
   sliders) from `from` meets `to`; 0 when none does *)
FirstHit(from, to, dirs, slides) ==
    FirstOf(dirs, {i \in 1..Len(dirs) :
                      IF slides THEN RayMeets(from, to, dirs[i])
                      ELSE U8(I8(from) + dirs[i]) = to})

(* a pass whose slider loops assign pbits instead of ORing into it: the KING
   bit of an adjacent square is lost *)
InspectedAssigned(khit, dhit, ohit, nhit) ==
    LET kbits == IF khit # 0 THEN KING ELSE 0
    IN  IF dhit # 0
          THEN [pbits |-> BISHOP + QUEEN, set |-> TRUE, dir |-> dhit]
        ELSE IF ohit # 0
          THEN [pbits |-> ROOK + QUEEN, set |-> TRUE, dir |-> ohit]
        ELSE IF nhit # 0
          THEN [pbits |-> BitOr(kbits, KNIGHT), set |-> TRUE, dir |-> nhit]
        ELSE [pbits |-> kbits, set |-> FALSE, dir |-> 0]

(* a pass that records the step without its sign *)
InspectedUnsigned(khit, dhit, ohit, nhit) ==
    LET kbits == IF khit # 0 THEN KING ELSE 0
    IN  IF dhit # 0
          THEN [pbits |-> BitOr(kbits, BISHOP + QUEEN), set |-> TRUE,
                dir |-> IF dhit < 0 THEN -dhit ELSE dhit]
        ELSE IF ohit # 0
          THEN [pbits |-> BitOr(kbits, ROOK + QUEEN), set |-> TRUE,
                dir |-> IF ohit < 0 THEN -ohit ELSE ohit]
        ELSE IF nhit # 0
          THEN [pbits |-> BitOr(kbits, KNIGHT), set |-> TRUE, dir |-> nhit]
        ELSE [pbits |-> kbits, set |-> FALSE, dir |-> 0]

(* what one pass of the loop body does once it knows the direction that
   hits for the king, on a diagonal, on a line and for the knight *)
Inspected(khit, dhit, ohit, nhit) ==
    LET kbits == IF khit # 0 THEN KING ELSE 0
    IN  IF dhit # 0
          THEN [pbits |-> BitOr(kbits, BISHOP + QUEEN), set |-> TRUE, dir |-> dhit]
        ELSE IF ohit # 0
          THEN [pbits |-> BitOr(kbits, ROOK + QUEEN), set |-> TRUE, dir |-> ohit]
        ELSE IF nhit # 0
          THEN [pbits |-> BitOr(kbits, KNIGHT), set |-> TRUE, dir |-> nhit]
        ELSE [pbits |-> kbits, set |-> FALSE, dir |-> 0]

(* one pass of the loop body for the pair (from, to): the bits it ORs into
   pbits, whether it assigns diffdir, and the value it assigns *)
InspectPair(from, to) ==
    Inspected(FirstHit(from, to, KING_DIRS, FALSE),
              FirstHit(from, to, DIAGONAL_DIRS, TRUE),
              FirstHit(from, to, ORTHOGONAL_DIRS, TRUE),
              FirstHit(from, to, KNIGHT_DIRS, FALSE))

(* the 64 x 64 iterations in the order the two range loops visit them:
   iteration k inspects the pair (PairFrom(k), PairTo(k)) *)
PairFrom(k) == Lookup0x88[k \div 64]
PairTo(k) == Lookup0x88[k % 64]

(* diffdir is declared outside both loops and never reset: after iteration k
   it holds what the last assigning iteration at or before k gave it; passes
   is the table of all iterations *)
DiffdirAfter(passes, k) ==
    IF \E back \in 0..k : passes[k - back].set
      THEN passes[k - (CHOOSE back \in 0..k :
                          /\ passes[k - back].set
                          /\ \A g \in 0..(back - 1) : ~passes[k - g].set)].dir
      ELSE 0

(* the last iteration that writes entry d of the two arrays, -1 when none:
   the pair with the greatest from whose to = from - (d - 0x77) is playable *)
LastWriterAt(fi, to) == 64 * fi + (8 * (to \div 16) + (to % 16))

LastWriterOf(d, fs) ==
    IF fs = {} THEN -1
    ELSE LastWriterAt(Max(fs), Lookup0x88[Max(fs)] - (d - 119))

LastWriter(d) ==
    LastWriterOf(d, {fi \in 0..63 : (Lookup0x88[fi] - (d - 119)) \in Playable})

(* the entries the loops leave at an index whose last writer is iteration k *)
DiffEntry(passes, k) ==
    IF k < 0 THEN [dir |-> 0, pbits |-> 0]
    ELSE [dir |-> DiffdirAfter(passes, k), pbits |-> passes[k].pbits]

(* the two arrays, filled from the table of all iterations *)
DiffMaps(entries) ==
    [dirs |-> [d \in 0..239 |-> entries[d].dir],
     diffs |-> [d \in 0..239 |-> entries[d].pbits]]

DiffEntries(passes) == [d \in 0..239 |-> DiffEntry(passes, LastWriter(d))]

(* populateDiffMaps: the arrays as the loops leave them *)
populateDiffMaps ==
    DiffMaps(DiffEntries([k \in 0..4095 |-> InspectPair(PairFrom(k), PairTo(k))]))

SQUARE_DIFFS == populateDiffMaps.diffs
DIFF_DIRS == populateDiffMaps.dirs

----------------------------------------------------------------------------
(* piece lists (type PieceList of package base, declared outside src/):
   Pieces[0..Size) as a sequence *)

NewPieceList == << >>

PieceListAdd(l, sq) == Append(l, sq)

(* Remove: the last entry takes the place of the removed one *)
PieceListRemove(l, sq) ==
    LET hits == {i \in 1..Len(l) : l[i] = sq}
    IN  IF hits = {} THEN l
        ELSE LET i == CHOOSE h \in hits : \A g \in hits : h <= g
                 moved == [l EXCEPT ![i] = l[Len(l)]]
             IN  SubSeq(moved, 1, Len(l) - 1)

(* Move: the entry holding from now holds to *)
PieceListMove(l, from, to) ==
    LET hits == {i \in 1..Len(l) : l[i] = from}
    IN  IF hits = {} THEN l
        ELSE LET i == CHOOSE h \in hits : \A g \in hits : h <= g
             IN  [l EXCEPT ![i] = to]

----------------------------------------------------------------------------
(* FEN parsing (ParseFEN of package base, declared outside src/).
   A FEN string is a sequence of one-character strings. *)

(* the k-th element of a finite set of integers in increasing order *)
Nth(S, k) == CHOOSE x \in S : Cardinality({y \in S : y < x}) = k - 1

(* strings.Split(s, sep) *)
Split(s, sep) ==
    LET cuts == {i \in 1..Len(s) : s[i] = sep} \cup {0, Len(s) + 1}
        n == Cardinality(cuts) - 1
    IN  List([k \in 1..n |-> SubSeq(s, Nth(cuts, k) + 1, Nth(cuts, k + 1) - 1)])

(* strings.Fields(s): the non-empty pieces between blanks *)
Fields(s) ==
    LET parts == Split(s, " ")
        keep == {k \in 1..Len(parts) : Len(parts[k]) > 0}
    IN  List([j \in 1..Cardinality(keep) |-> parts[Nth(keep, j)]])

PieceOfChar ==
    [c \in {"p", "n", "b", "r", "q", "k", "P", "N", "B", "R", "Q", "K"} |->
        CASE c = "p" -> BPAWN [] c = "n" -> BKNIGHT [] c = "b" -> BBISHOP
          [] c = "r" -> BROOK [] c = "q" -> BQUEEN [] c = "k" -> BKING
          [] c = "P" -> WPAWN [] c = "N" -> WKNIGHT [] c = "B" -> WBISHOP
          [] c = "R" -> WROOK [] c = "Q" -> WQUEEN [] c = "K" -> WKING]

DigitOfChar ==
    [c \in {"0", "1", "2", "3", "4", "5", "6", "7", "8", "9"} |->
        CASE c = "0" -> 0 [] c = "1" -> 1 [] c = "2" -> 2 [] c = "3" -> 3
          [] c = "4" -> 4 [] c = "5" -> 5 [] c = "6" -> 6 [] c = "7" -> 7
          [] c = "8" -> 8 [] c = "9" -> 9]

FileOfChar ==
    [c \in {"a", "b", "c", "d", "e", "f", "g", "h"} |->
        CASE c = "a" -> 0 [] c = "b" -> 1 [] c = "c" -> 2 [] c = "d" -> 3
          [] c = "e" -> 4 [] c = "f" -> 5 [] c = "g" -> 6 [] c = "h" -> 7]

IsDigit(c) == c \in DOMAIN DigitOfChar

(* one rank of the placement field: the pieces of its files a..h, or << >>
   when a character is no piece and no digit 1..8 *)
RECURSIVE ParseRank(_, _, _)
ParseRank(r, i, acc) ==
    IF i > Len(r) THEN acc
    ELSE IF r[i] \in DOMAIN PieceOfChar
      THEN ParseRank(r, i + 1, Append(acc, PieceOfChar[r[i]]))
    ELSE IF IsDigit(r[i]) /\ DigitOfChar[r[i]] \in 1..8
      THEN ParseRank(r, i + 1, acc \o List([j \in 1..DigitOfChar[r[i]] |-> EMPTY]))
    ELSE << >>

(* strconv.ParseUint(s, 10, 16): -1 for an error *)
RECURSIVE ParseUint16(_, _, _)
ParseUint16(s, i, acc) ==
    IF Len(s) = 0 THEN -1
    ELSE IF i > Len(s) THEN acc
    ELSE IF ~IsDigit(s[i]) THEN -1
    ELSE IF acc * 10 + DigitOfChar[s[i]] > 65535 THEN -1
    ELSE ParseUint16(s, i + 1, acc * 10 + DigitOfChar[s[i]])

(* ParseFEN: [err |-> TRUE] or the MinBoard; MinBoard.Squares is indexed
   0..63 from a1 to h8, MinBoard.EpSquare is such an index or OTB *)
ParseFEN(fenstr) ==
    LET f == Fields(fenstr)
        bad == [err |-> TRUE]
    IN  IF Len(f) # 6 THEN bad
        ELSE
        LET ranks == Split(f[1], "/")
            rows == List([k \in 1..Len(ranks) |-> ParseRank(ranks[k], 1, << >>)])
            side == f[2]
            castle == f[3]
            ep == f[4]
            half == ParseUint16(f[5], 1, 0)
            full == ParseUint16(f[6], 1, 0)
        IN  IF Len(ranks) # 8 \/ \E k \in 1..Len(ranks) : Len(rows[k]) # 8 THEN bad
            ELSE IF side # <<"w">> /\ side # <<"b">> THEN bad
            ELSE IF castle # <<"-">>
                    /\ (Len(castle) = 0 \/ Len(castle) > 4
                        \/ \E i \in 1..Len(castle) : castle[i] \notin {"K", "Q", "k", "q"})
              THEN bad
            ELSE IF ep # <<"-">>
                    /\ ~(Len(ep) = 2 /\ ep[1] \in DOMAIN FileOfChar
                         /\ IsDigit(ep[2]) /\ DigitOfChar[ep[2]] \in 1..8)
              THEN bad
            ELSE IF half < 0 \/ full < 0 THEN bad
            ELSE [err |-> FALSE,
                  Squares |-> Array([i \in 0..63 |-> rows[8 - (i \div 8)][(i % 8) + 1]]),
                  Color |-> IF side = <<"w">> THEN WHITE ELSE BLACK,
                  CastleShort |-> Array([c \in Colors |->
                      \E i \in 1..Len(castle) : castle[i] = (IF c = WHITE THEN "K" ELSE "k")]),
                  CastleLong |-> Array([c \in Colors |->
                      \E i \in 1..Len(castle) : castle[i] = (IF c = WHITE THEN "Q" ELSE "q")]),
                  EpSquare |-> IF ep = <<"-">> THEN OTB
                               ELSE 8 * (DigitOfChar[ep[2]] - 1) + FileOfChar[ep[1]],
                  HalfMoves |-> half,
                  MoveNum |-> full]

----------------------------------------------------------------------------
(* board.go: type Board *)

InfoSquares == {i \in 0..127 : BitAnd(i, 8) # 0}

(* Board{} with the fields NewBoard assigns before SetStartingPosition *)
ZeroBoard ==
    [Squares     |-> [i \in 0..127 |-> 0],
     CastleShort |-> [c \in Colors |-> FALSE],
     CastleLong  |-> [c \in Colors |-> FALSE],
     MoveNumber  |-> 0,
     DrawCounter |-> 0,
     CheckInfo   |-> CHECK_NONE,
     EpSquare    |-> 0,
     Player      |-> BLACK,
     Kings       |-> [c \in Colors |-> OTB],
     Sliders     |-> [c \in Colors |-> NewPieceList],
     Queens      |-> [c \in Colors |-> NewPieceList],
     Rooks       |-> [c \in Colors |-> NewPieceList],
     Bishops     |-> [c \in Colors |-> NewPieceList],
     Knights     |-> [c \in Colors |-> NewPieceList],
     Pawns       |-> [c \in Colors |-> NewPieceList]]

(* Board.clearMetaInfo *)
clearMetaInfo(b) ==
    [b EXCEPT !.CheckInfo = CHECK_NONE,
              !.Squares = Array([i \in 0..127 |->
                              IF i \in InfoSquares THEN INFO_NONE ELSE b.Squares[i]])]

(* b.Squares[sq.ToInfoIndex()].Set(mask) *)
SetInfo(squares, sq, mask) ==
    [squares EXCEPT ![ToInfoIndex(sq)] = InfoSet(@, mask)]

----------------------------------------------------------------------------
(* board.go: the attack detector *)

(* the ray walk of IsSqAttackedBySlider, from stepSq on *)
RECURSIVE SliderWalk(_, _, _, _, _)
SliderWalk(b, color, ptype, diffdir, stepSq) ==
    LET curPiece == b.Squares[stepSq]
    IN  IF IsEmpty(curPiece)
          THEN SliderWalk(b, color, ptype, diffdir, U8(I8(stepSq) + diffdir))
        ELSE IF HasColor(curPiece, color) THEN FALSE
        ELSE IF Contains(curPiece, ptype) THEN TRUE
        ELSE FALSE

(* IsSqAttackedBySlider, one slider: a piece of kind ptype at the packed
   delta diff from sq; the walk starts one step from sq *)
SliderWalkFrom(b, color, ptype, sq, diffdir) ==
    SliderWalk(b, color, ptype, diffdir, U8(I8(sq) + diffdir))

SliderAttacks(b, color, sq, ptype, diff) ==
    /\ Contains(SQUARE_DIFFS[diff], ptype)
    /\ SliderWalkFrom(b, color, ptype, sq, DIFF_DIRS[diff])

(* IsSqAttackedBySlider that does not skip the slider listed on ignoreSq *)
IsSqAttackedBySliderNoSkip(b, color, sq, ignoreSq) ==
    LET list == b.Sliders[Flip(color)]
    IN  \E i \in 1..Len(list) :
            SliderAttacks(b, color, sq, BitAnd(b.Squares[list[i]], PIECE_MASK),
                          Diff(sq, list[i]))

(* Board.IsSqAttackedBySlider *)
IsSqAttackedBySlider(b, color, sq, ignoreSq) ==
    LET list == b.Sliders[Flip(color)]
    IN  \E i \in 1..Len(list) :
            /\ list[i] # ignoreSq
            /\ SliderAttacks(b, color, sq, BitAnd(b.Squares[list[i]], PIECE_MASK),
                             Diff(sq, list[i]))

(* Board.IsSquareAttacked *)
IsSquareAttacked(b, sq, ignoreSq, color) ==
    LET oppColor == Flip(color)
        knights == b.Knights[oppColor]
        oppPawn == PAWN + oppColor
        pawnSq(d) == U8(I8(sq) + PAWN_CAPTURE_DIRS[color][d])
    IN  \/ \E i \in 1..Len(knights) :
              /\ knights[i] # ignoreSq
              /\ Contains(SQUARE_DIFFS[Diff(knights[i], sq)], KNIGHT)
        \/ IsSqAttackedBySlider(b, color, sq, ignoreSq)
        \/ \E d \in 1..2 : OnBoard(pawnSq(d)) /\ b.Squares[pawnSq(d)] = oppPawn
        \/ Contains(SQUARE_DIFFS[Diff(b.Kings[oppColor], sq)], KING)

----------------------------------------------------------------------------
(* board.go: the check-and-pin annotator *)

(* the walk that takes the first enemy piece it meets for the slider *)
RECURSIVE PinWalkAnyEnemy(_, _, _, _, _, _, _)
PinWalkAnyEnemy(b, color, sliderSq, diffdir, pmarker, stepSq, info) ==
    LET curPiece == b.Squares[stepSq]
        next == U8(I8(stepSq) + diffdir)
    IN  IF IsEmpty(curPiece)
          THEN PinWalkAnyEnemy(b, color, sliderSq, diffdir, pmarker, next, info)
        ELSE IF HasColor(curPiece, color)
          THEN IF info = INFO_NONE
                 THEN PinWalkAnyEnemy(b, color, sliderSq, diffdir, pmarker, next,
                                      InfoSet(info, INFO_MASK_MAYBE_PINNED))
                 ELSE [info |-> INFO_NONE, check |-> FALSE, pin |-> FALSE]
        ELSE IF info = INFO_NONE
          THEN [info |-> InfoSet(info, INFO_MASK_CHECK), check |-> TRUE, pin |-> FALSE]
          ELSE [info |-> pmarker, check |-> FALSE, pin |-> TRUE]

(* the walk from the king toward the slider: the info it ends with, and
   whether it found a check or used the pin marker *)
RECURSIVE PinWalk(_, _, _, _, _, _, _)
PinWalk(b, color, sliderSq, diffdir, pmarker, stepSq, info) ==
    LET curPiece == b.Squares[stepSq]
        next == U8(I8(stepSq) + diffdir)
    IN  IF IsEmpty(curPiece)
          THEN PinWalk(b, color, sliderSq, diffdir, pmarker, next, info)
        ELSE IF HasColor(curPiece, color)
          THEN IF info = INFO_NONE
                 THEN PinWalk(b, color, sliderSq, diffdir, pmarker, next,
                              InfoSet(info, INFO_MASK_MAYBE_PINNED))
                 ELSE [info |-> INFO_NONE, check |-> FALSE, pin |-> FALSE]
        ELSE IF stepSq = sliderSq
          THEN IF info = INFO_NONE
                 THEN [info |-> InfoSet(info, INFO_MASK_CHECK), check |-> TRUE, pin |-> FALSE]
                 ELSE [info |-> pmarker, check |-> FALSE, pin |-> TRUE]
        ELSE [info |-> INFO_NONE, check |-> FALSE, pin |-> FALSE]

(* the marking loop that starts one step after the slider *)
RECURSIVE MarkRayBetween(_, _, _, _, _)
MarkRayBetween(squares, stepSq, kingSq, diffdir, info) ==
    LET next == U8(I8(stepSq) - diffdir)
    IN  IF stepSq = kingSq \/ next = kingSq THEN squares
        ELSE MarkRayBetween(SetInfo(squares, next, info), next, kingSq, diffdir, info)

(* the marking loop: from the slider back to the king, the king excluded *)
RECURSIVE MarkRay(_, _, _, _, _)
MarkRay(squares, stepSq, kingSq, diffdir, info) ==
    IF stepSq = kingSq THEN squares
    ELSE MarkRay(SetInfo(squares, stepSq, info), U8(I8(stepSq) - diffdir),
                 kingSq, diffdir, info)

(* DetectSliderChecksAndPins, a slider on a line of the king: once the walk
   w is done, the ray is marked for a check or a pin, the square behind the
   king for a check; st = [b, pmarker, checkCounter] *)
SliderMarked(st, color, sliderSq, diffdir, w) ==
    LET kingSq == st.b.Kings[color]
        marks == IsSet(w.info, INFO_MASK_CHECK) \/ Pinval(w.info) # 0
        behind == U8(I8(kingSq) - diffdir)
        forbids == marks /\ IsSet(w.info, INFO_MASK_CHECK) /\ OnBoard(behind)
        sq1 == IF marks THEN MarkRay(st.b.Squares, sliderSq, kingSq, diffdir, w.info)
               ELSE st.b.Squares
    IN  [b |-> [st.b EXCEPT
                  !.Squares = IF forbids
                                THEN SetInfo(sq1, behind, INFO_MASK_FORBIDDEN_ESCAPE)
                                ELSE sq1,
                  !.CheckInfo = IF w.check THEN sliderSq ELSE @],
         pmarker |-> IF w.pin THEN st.pmarker + 1 ELSE st.pmarker,
         checkCounter |-> IF w.check THEN st.checkCounter + 1 ELSE st.checkCounter]

(* DetectSliderChecksAndPins, a slider on a line of the king: the walk from
   the king toward it along diffdir *)
SliderAligned(st, color, sliderSq, diffdir) ==
    SliderMarked(st, color, sliderSq, diffdir,
                 PinWalk(st.b, color, sliderSq, diffdir, st.pmarker,
                         U8(I8(st.b.Kings[color]) + diffdir), INFO_NONE))

(* the loop of DetectSliderChecksAndPins from entry i of the list on: the
   early return after a slider that made the second check, the next entry
   otherwise *)
RECURSIVE SliderLoop(_, _, _, _, _, _)
SliderNext(st, color, ccount, pieceList, ptype, i) ==
    IF st.checkCounter + ccount > 1 THEN st
    ELSE SliderLoop(st, color, ccount, pieceList, ptype, i + 1)

SliderLoop(st, color, ccount, pieceList, ptype, i) ==
    IF i > Len(pieceList) THEN st
    ELSE IF ~Contains(SQUARE_DIFFS[Diff(st.b.Kings[color], pieceList[i])], ptype)
      THEN SliderLoop(st, color, ccount, pieceList, ptype, i + 1)
    ELSE SliderNext(SliderAligned(st, color, pieceList[i],
                                  DIFF_DIRS[Diff(st.b.Kings[color], pieceList[i])]),
                    color, ccount, pieceList, ptype, i)

(* Board.DetectSliderChecksAndPins: the board, the pin marker and the
   number of checks it found *)
DetectSliderChecksAndPins(b, color, pmarker, ccount, pieceList, ptype) ==
    SliderLoop([b |-> b, pmarker |-> pmarker, checkCounter |-> 0],
               color, ccount, pieceList, ptype, 1)

(* DetectChecksAndPins, 1. knights and 2. pawns: the first checking piece
   of the list ends the loop; found numbers the checking entries of list;
   st = [b, checkCounter] *)
FirstChecker(st, list, found) ==
    IF found = {} THEN st
    ELSE [b |-> [st.b EXCEPT
                   !.CheckInfo = list[CHOOSE i \in found : \A j \in found : i <= j],
                   !.Squares = SetInfo(@, list[CHOOSE i \in found : \A j \in found : i <= j],
                                       INFO_MASK_CHECK)],
          checkCounter |-> st.checkCounter + 1]

(* DetectChecksAndPins, the end: two checks or more are a double check *)
DetectedRooks(r, c5) ==
    IF c5 + r.checkCounter > 1 THEN [r.b EXCEPT !.CheckInfo = CHECK_DOUBLE_CHECK]
    ELSE r.b

(* DetectChecksAndPins, 3. sliders: rooks after bishops, unless in double
   check *)
DetectedBishops(bi, c4, color) ==
    IF c4 + bi.checkCounter > 1 THEN [bi.b EXCEPT !.CheckInfo = CHECK_DOUBLE_CHECK]
    ELSE DetectedRooks(
             DetectSliderChecksAndPins(bi.b, color, bi.pmarker, c4 + bi.checkCounter,
                                       bi.b.Rooks[Flip(color)], ROOK),
             c4 + bi.checkCounter)

(* DetectChecksAndPins, 3. sliders: bishops after queens, unless in double
   check *)
DetectedQueens(q, c3, color) ==
    IF c3 + q.checkCounter > 1 THEN [q.b EXCEPT !.CheckInfo = CHECK_DOUBLE_CHECK]
    ELSE DetectedBishops(
             DetectSliderChecksAndPins(q.b, color, q.pmarker, c3 + q.checkCounter,
                                       q.b.Bishops[Flip(color)], BISHOP),
             c3 + q.checkCounter, color)

(* DetectChecksAndPins, 3. sliders: queens first *)
DetectedPawns(st, color) ==
    DetectedQueens(
        DetectSliderChecksAndPins(st.b, color, INFO_PIN_FIRST, st.checkCounter,
                                  st.b.Queens[Flip(color)], QUEEN),
        st.checkCounter, color)

(* DetectChecksAndPins, 2. pawns *)
DetectedKnights(st, color) ==
    DetectedPawns(
        FirstChecker(st, st.b.Pawns[Flip(color)],
            {i \in 1..Len(st.b.Pawns[Flip(color)]) :
                \E d \in 1..2 :
                    st.b.Kings[color] = U8(I8(st.b.Pawns[Flip(color)][i])
                                            + PAWN_CAPTURE_DIRS[Flip(color)][d])}),
        color)

(* Board.DetectChecksAndPins *)
DetectChecksAndPins(b0, color) ==
    DetectedKnights(
        FirstChecker([b |-> clearMetaInfo(b0), checkCounter |-> 0],
            b0.Knights[Flip(color)],
            {i \in 1..Len(b0.Knights[Flip(color)]) :
                Contains(SQUARE_DIFFS[Diff(b0.Knights[Flip(color)][i], b0.Kings[color])],
                         KNIGHT)}),
        color)

----------------------------------------------------------------------------
(* board.go: SetFEN *)

(* the squares of the staging board that hold one of the given pieces, in
   the order the loop over mb.Squares meets (and Adds) them *)
SquaresHolding(mb, pieces) ==
    LET idxs == {idx \in 0..63 : mb.Squares[idx] \in pieces}
    IN  List([j \in 1..Cardinality(idxs) |-> Lookup0x88[Nth(idxs, j)]])

(* the loop over mb.Squares: every playable square is assigned, every piece
   is added to its lists in index order, the last king met of a colour is
   that colour's king *)
LoadSquares(b, mb) ==
    LET king(c) ==
            LET ks == {idx \in 0..63 : mb.Squares[idx] = KING + c}
            IN  IF ks = {} THEN b.Kings[c] ELSE Lookup0x88[Max(ks)]
    IN  [b EXCEPT
           !.Squares = Array([sq \in 0..127 |->
                           IF OnBoard(sq) THEN mb.Squares[8 * (sq \div 16) + (sq % 16)]
                           ELSE b.Squares[sq]]),
           !.Kings = Array([c \in Colors |-> king(c)]),
           !.Queens = Array([c \in Colors |-> b.Queens[c] \o SquaresHolding(mb, {QUEEN + c})]),
           !.Rooks = Array([c \in Colors |-> b.Rooks[c] \o SquaresHolding(mb, {ROOK + c})]),
           !.Bishops = Array([c \in Colors |-> b.Bishops[c] \o SquaresHolding(mb, {BISHOP + c})]),
           !.Sliders = Array([c \in Colors |->
               b.Sliders[c] \o SquaresHolding(mb, {QUEEN + c, ROOK + c, BISHOP + c})]),
           !.Knights = Array([c \in Colors |-> b.Knights[c] \o SquaresHolding(mb, {KNIGHT + c})]),
           !.Pawns = Array([c \in Colors |-> b.Pawns[c] \o SquaresHolding(mb, {PAWN + c})])]

(* SetFEN after the parse: the lists are emptied and the scalar fields of
   the staging board copied *)
SetFENFields(b, mb) ==
    [b EXCEPT !.Sliders = Array([c \in Colors |-> << >>]),
              !.Queens = Array([c \in Colors |-> << >>]),
              !.Rooks = Array([c \in Colors |-> << >>]),
              !.Bishops = Array([c \in Colors |-> << >>]),
              !.Knights = Array([c \in Colors |-> << >>]),
              !.Pawns = Array([c \in Colors |-> << >>]),
              !.MoveNumber = mb.MoveNum,
              !.DrawCounter = mb.HalfMoves,
              !.EpSquare = IF mb.EpSquare # OTB THEN Lookup0x88[mb.EpSquare]
                           ELSE OTB,
              !.CastleShort = mb.CastleShort,
              !.CastleLong = mb.CastleLong,
              !.Player = mb.Color]

(* the end of SetFEN: the annotator runs for the side to move *)
SetFENAnnotated(loaded) ==
    [err |-> FALSE, b |-> DetectChecksAndPins(loaded, loaded.Player)]

(* SetFEN once ParseFEN has given the staging board mb *)
SetFENParsed(b, mb) ==
    IF mb.err THEN [err |-> TRUE, b |-> b]
    ELSE SetFENAnnotated(LoadSquares(SetFENFields(b, mb), mb))

(* SetFEN that clears the info bytes before it looks at the error *)
SetFENClearsFirstParsed(b, mb) ==
    IF mb.err THEN [err |-> TRUE, b |-> clearMetaInfo(b)]
    ELSE SetFENAnnotated(LoadSquares(SetFENFields(b, mb), mb))

SetFENClearsFirst(b, fenstr) == SetFENClearsFirstParsed(b, ParseFEN(fenstr))

(* SetFEN that does not run the annotator on the position it loaded *)
SetFENUnannotatedParsed(b, mb) ==
    IF mb.err THEN [err |-> TRUE, b |-> b]
    ELSE [err |-> FALSE, b |-> LoadSquares(SetFENFields(b, mb), mb)]

SetFENUnannotated(b, fenstr) == SetFENUnannotatedParsed(b, ParseFEN(fenstr))

(* Board.SetFEN: the error it returns and the board it leaves *)
SetFEN(b, fenstr) == SetFENParsed(b, ParseFEN(fenstr))

----------------------------------------------------------------------------
(* moves (type BitMove of package base, declared outside src/): 16 bits,
   from and to as 6-bit indexes a1 = 0 .. h8 = 63, the promotion kind
   shifted down by two in the top four bits *)

Index64(sq) == 8 * (sq \div 16) + (sq % 16)

(* NewBitMove: the result is a uint16, so bit 7 of promo (EMPTY) is lost *)
NewBitMove(from, to, promo) ==
    (Index64(from) + 64 * Index64(to) + 4096 * (promo \div 4)) % 65536

(* BitMove.All *)
MoveFrom(m) == Lookup0x88[m % 64]
MoveTo(m) == Lookup0x88[(m \div 64) % 64]
MovePromo(m) == 4 * (m \div 4096)

SquareName(sq) ==
    <<"a", "b", "c", "d", "e", "f", "g", "h">>[File(sq) + 1]
        \o <<"1", "2", "3", "4", "5", "6", "7", "8">>[Rank(sq) + 1]

(* BitMove.MiniNotation *)
MiniNotation(m) ==
    SquareName(MoveFrom(m)) \o SquareName(MoveTo(m))
        \o (CASE MovePromo(m) = QUEEN -> "q"
              [] MovePromo(m) = ROOK -> "r"
              [] MovePromo(m) = BISHOP -> "b"
              [] MovePromo(m) = KNIGHT -> "n"
              [] OTHER -> "")

(* the concatenation seqs[lo] \o ... \o seqs[hi] *)
RECURSIVE Flatten(_, _, _)
Flatten(seqs, lo, hi) ==
    IF lo > hi THEN << >>
    ELSE IF lo = hi THEN seqs[lo]
    ELSE LET mid == (lo + hi) \div 2
         IN  Flatten(seqs, lo, mid) \o Flatten(seqs, mid + 1, hi)

(* the values f[i], i in S, in increasing order of i *)
Pick(f, S) == List([j \in 1..Cardinality(S) |-> f[Nth(S, j)]])

----------------------------------------------------------------------------
(* board.go: the legal move generator; every Generate... gives the moves it
   Puts into the list, in order *)

(* GenerateKingMoves, the loop over KING_DIRS: for each direction, whether
   the square is on the board, not the king's own piece and not attacked *)
KingTargets(b, color, from) ==
    List([i \in 1..8 |->
            /\ OnBoard(U8(I8(from) + KING_DIRS[i]))
            /\ ~HasColor(b.Squares[U8(I8(from) + KING_DIRS[i])], color)
            /\ ~IsSquareAttacked(b, U8(I8(from) + KING_DIRS[i]), OTB, color)])

(* GenerateKingMoves, the steps it Puts: safe targets that the annotator did
   not forbid *)
KingSteps(b, color, from, targets) ==
    Pick([i \in 1..8 |-> NewBitMove(from, U8(I8(from) + KING_DIRS[i]), NONE)],
         {i \in 1..8 : /\ targets[i]
                        /\ ~IsSet(b.Squares[ToInfoIndex(U8(I8(from) + KING_DIRS[i]))],
                                  INFO_MASK_FORBIDDEN_ESCAPE)
                        /\ ~HasColor(b.Squares[U8(I8(from) + KING_DIRS[i])], color)})

(* GenerateKingMoves, castling, short for k = 1 and long for k = 2: the
   right is held, the squares of the path are empty, the step loop found
   the square next to the king safe, and the king's destination (the second
   square of the path) is not attacked *)
KingCastle(b, color, from, targets, k) ==
    LET path == IF k = 1 THEN CASTLING_PATH_SHORT[color] ELSE CASTLING_PATH_LONG[color]
        right == IF k = 1 THEN b.CastleShort[color] ELSE b.CastleLong[color]
    IN  IF /\ right
           /\ \A j \in 1..Len(path) : IsEmpty(b.Squares[path[j]])
           /\ targets[k]
           /\ ~IsSquareAttacked(b, path[2], OTB, color)
          THEN <<NewBitMove(from, path[2], NONE)>>
          ELSE << >>

(* castling long that also wants the square next to the rook unattacked *)
KingCastleSafePath(b, color, from, targets, k) ==
    LET path == IF k = 1 THEN CASTLING_PATH_SHORT[color] ELSE CASTLING_PATH_LONG[color]
        right == IF k = 1 THEN b.CastleShort[color] ELSE b.CastleLong[color]
    IN  IF /\ right
           /\ \A j \in 1..Len(path) : IsEmpty(b.Squares[path[j]])
           /\ targets[k]
           /\ \A j \in 2..Len(path) : ~IsSquareAttacked(b, path[j], OTB, color)
          THEN <<NewBitMove(from, path[2], NONE)>>
          ELSE << >>

(* GenerateKingMoves once the step loop has filled targets: no castling in
   check *)
KingMoves(b, color, from, targets) ==
    IF b.CheckInfo # CHECK_NONE THEN KingSteps(b, color, from, targets)
    ELSE KingSteps(b, color, from, targets)
           \o Flatten([k \in 1..2 |-> KingCastle(b, color, from, targets, k)], 1, 2)

(* GenerateKingMoves that never castles long *)
GenerateKingMovesShortOnly(b, color) ==
    LET targets == KingTargets(b, color, b.Kings[color])
    IN  IF b.CheckInfo # CHECK_NONE THEN KingSteps(b, color, b.Kings[color], targets)
        ELSE KingSteps(b, color, b.Kings[color], targets)
               \o KingCastle(b, color, b.Kings[color], targets, 1)

(* GenerateKingMoves that castles long only when no square between king and
   rook is attacked *)
GenerateKingMovesSafePath(b, color) ==
    LET targets == KingTargets(b, color, b.Kings[color])
    IN  IF b.CheckInfo # CHECK_NONE THEN KingSteps(b, color, b.Kings[color], targets)
        ELSE KingSteps(b, color, b.Kings[color], targets)
               \o KingCastleSafePath(b, color, b.Kings[color], targets, 1)
               \o KingCastleSafePath(b, color, b.Kings[color], targets, 2)

(* Board.GenerateKingMoves *)
GenerateKingMoves(b, color) ==
    KingMoves(b, color, b.Kings[color], KingTargets(b, color, b.Kings[color]))

(* GenerateKnightMoves that moves pinned knights too *)
GenerateKnightMovesPinned(b, color) ==
    LET isCheck == OnBoard(b.CheckInfo)
        list == b.Knights[color]
        of(from) ==
            LET to(d) == U8(I8(from) + KNIGHT_DIRS[d])
                ok == {d \in 1..8 :
                          /\ OnBoard(to(d))
                          /\ ~(isCheck /\ ~IsSet(b.Squares[ToInfoIndex(to(d))],
                                                 INFO_MASK_CHECK))
                          /\ ~HasColor(b.Squares[to(d)], color)}
            IN  Pick([d \in 1..8 |-> NewBitMove(from, to(d), NONE)], ok)
    IN  Flatten([i \in 1..Len(list) |-> of(list[i])], 1, Len(list))

(* Board.GenerateKnightMoves *)
GenerateKnightMoves(b, color) ==
    LET isCheck == OnBoard(b.CheckInfo)
        list == b.Knights[color]
        of(from) ==
            LET to(d) == U8(I8(from) + KNIGHT_DIRS[d])
                ok == {d \in 1..8 :
                          /\ OnBoard(to(d))
                          /\ ~(isCheck /\ ~IsSet(b.Squares[ToInfoIndex(to(d))],
                                                 INFO_MASK_CHECK))
                          /\ ~HasColor(b.Squares[to(d)], color)}
            IN  IF Pinval(b.Squares[ToInfoIndex(from)]) # 0 THEN << >>
                ELSE Pick([d \in 1..8 |-> NewBitMove(from, to(d), NONE)], ok)
    IN  Flatten([i \in 1..Len(list) |-> of(list[i])], 1, Len(list))

(* the innermost loop of GenerateSlidingMoves, from steps on *)
RECURSIVE SlideRay(_, _, _, _, _, _, _)
SlideRay(b, color, from, dir, steps, isPinned, isCheck) ==
    LET to == U8(I8(from) + I8(dir * steps))
        tpiece == b.Squares[to]
        rest == SlideRay(b, color, from, dir, steps + 1, isPinned, isCheck)
    IN  IF ~OnBoard(to) THEN << >>
        ELSE IF isPinned /\ b.Squares[ToInfoIndex(to)] # b.Squares[ToInfoIndex(from)]
          THEN << >>
        ELSE IF isCheck /\ ~IsSet(b.Squares[ToInfoIndex(to)], INFO_MASK_CHECK)
          THEN IF ~IsEmpty(tpiece) THEN << >> ELSE rest
        ELSE IF HasColor(tpiece, color) THEN << >>
        ELSE IF IsEmpty(tpiece) THEN <<NewBitMove(from, to, NONE)>> \o rest
        ELSE IF HasColor(tpiece, Flip(color)) THEN <<NewBitMove(from, to, NONE)>>
        ELSE rest

(* GenerateSlidingMoves that does not look at CheckInfo *)
GenerateSlidingMovesUnchecked(b, color, ptype, dirs, plist) ==
    LET isCheck == FALSE
        of(from) ==
            LET isPinned == Pinval(b.Squares[ToInfoIndex(from)]) # 0
            IN  Flatten([i \in 1..4 |->
                            SlideRay(b, color, from, dirs[i], 1, isPinned, isCheck)],
                        1, 4)
    IN  Flatten([i \in 1..Len(plist) |-> of(plist[i])], 1, Len(plist))

(* GenerateSlidingMoves that does not look at the pin marker *)
GenerateSlidingMovesUnpinned(b, color, ptype, dirs, plist) ==
    LET isCheck == OnBoard(b.CheckInfo)
        of(from) ==
            Flatten([i \in 1..4 |->
                        SlideRay(b, color, from, dirs[i], 1, FALSE, isCheck)],
                    1, 4)
    IN  Flatten([i \in 1..Len(plist) |-> of(plist[i])], 1, Len(plist))

(* Board.GenerateSlidingMoves *)
GenerateSlidingMoves(b, color, ptype, dirs, plist) ==
    LET isCheck == OnBoard(b.CheckInfo)
        of(from) ==
            LET isPinned == Pinval(b.Squares[ToInfoIndex(from)]) # 0
            IN  Flatten([i \in 1..4 |->
                            SlideRay(b, color, from, dirs[i], 1, isPinned, isCheck)],
                        1, 4)
    IN  Flatten([i \in 1..Len(plist) |-> of(plist[i])], 1, Len(plist))

(* Board.GenerateBishopMoves, GenerateRookMoves, GenerateQueenMoves *)
GenerateBishopMoves(b, color) ==
    GenerateSlidingMoves(b, color, BISHOP, DIAGONAL_DIRS, b.Bishops[color])
GenerateRookMoves(b, color) ==
    GenerateSlidingMoves(b, color, ROOK, ORTHOGONAL_DIRS, b.Rooks[color])
GenerateQueenMoves(b, color) ==
    GenerateSlidingMoves(b, color, QUEEN, ORTHOGONAL_DIRS, b.Queens[color])
        \o GenerateSlidingMoves(b, color, QUEEN, DIAGONAL_DIRS, b.Queens[color])


(* en-passant kinds of a pawn move (package base, declared outside src/) *)
EP_TYPE_NONE == 0
EP_TYPE_CREATE == 1
EP_TYPE_CAPTURE == 2

(* tryPawnMoveLegality, the fake move on the squares sqs: the pawn goes
   from from to to *)
PawnFaked(sqs, from, to) ==
    [[sqs EXCEPT ![to] = sqs[from]] EXCEPT ![from] = EMPTY]

(* tryPawnMoveLegality, the undo on the squares s3 of the fake move *)
PawnUndone(s3, from, to, capSq, capPiece, color) ==
    IF capSq # to
      THEN [[[s3 EXCEPT ![from] = PAWN + color] EXCEPT ![capSq] = capPiece]
               EXCEPT ![to] = EMPTY]
      ELSE [[s3 EXCEPT ![from] = PAWN + color] EXCEPT ![to] = capPiece]

(* the undo that leaves the capturing pawn on to when capSq is elsewhere *)
PawnHalfUndone(s3, from, to, capSq, capPiece, color) ==
    IF capSq # to
      THEN [[s3 EXCEPT ![from] = PAWN + color] EXCEPT ![capSq] = capPiece]
      ELSE [[s3 EXCEPT ![from] = PAWN + color] EXCEPT ![to] = capPiece]

(* tryPawnMoveLegality once the fake move has given the squares s3: is the
   king attacked, the square capSq ignored; then the undo *)
PawnTried(b, s3, from, to, capSq, capPiece, color) ==
    [legal |-> ~IsSquareAttacked([b EXCEPT !.Squares = s3], b.Kings[color], capSq, color),
     b |-> [b EXCEPT !.Squares = PawnUndone(s3, from, to, capSq, capPiece, color)]]

(* tryPawnMoveLegality that leaves the captured pawn on the board while it
   looks for an attack on the king *)
tryPawnMoveLegalityKeepsCaptured(b, from, to, capSq, capPiece, color) ==
    PawnTried(b, PawnFaked(b.Squares, from, to), from, to, capSq, capPiece, color)

(* tryPawnMoveLegality that puts the captured pawn back and leaves the
   capturing pawn on the e.p. square as well *)
tryPawnMoveLegalityHalfUndone(b, from, to, capSq, capPiece, color) ==
    [legal |-> ~IsSquareAttacked(
                   [b EXCEPT !.Squares =
                        PawnFaked([b.Squares EXCEPT ![capSq] = EMPTY], from, to)],
                   b.Kings[color], capSq, color),
     b |-> [b EXCEPT !.Squares =
                PawnHalfUndone(PawnFaked([b.Squares EXCEPT ![capSq] = EMPTY], from, to),
                               from, to, capSq, capPiece, color)]]

(* Board.tryPawnMoveLegality: the answer, and the board after the fake move
   was undone *)
tryPawnMoveLegality(b, from, to, capSq, capPiece, color) ==
    PawnTried(b, PawnFaked([b.Squares EXCEPT ![capSq] = EMPTY], from, to),
              from, to, capSq, capPiece, color)

(* newPawnMoveIfLegal, EP_TYPE_CAPTURE: the move if the try t found it legal *)
PawnMoveTried(t, from, to, promtype) ==
    IF t.legal
      THEN [move |-> NewBitMove(from, to, promtype), legal |-> TRUE, b |-> t.b]
      ELSE [move |-> 0, legal |-> FALSE, b |-> t.b]

(* Board.newPawnMoveIfLegal: the move, whether it is legal, and the board *)
newPawnMoveIfLegal(b, color, from, to, ptype, capPiece, promtype, eptype) ==
    IF eptype = EP_TYPE_CAPTURE
      THEN PawnMoveTried(
               tryPawnMoveLegality(b, from, to, U8(I8(to) + PAWN_PUSH_DIRS[Flip(color)]),
                                   capPiece, color),
               from, to, promtype)
      ELSE LET frompinval == Pinval(b.Squares[ToInfoIndex(from)])
               isPinned == frompinval # 0
           IN  IF isPinned /\ Pinval(b.Squares[ToInfoIndex(to)]) # frompinval
                 THEN [move |-> 0, legal |-> FALSE, b |-> b]
               ELSE IF OnBoard(b.CheckInfo)
                       /\ ~IsSet(b.Squares[ToInfoIndex(to)], INFO_MASK_CHECK)
                 THEN [move |-> 0, legal |-> FALSE, b |-> b]
               ELSE [move |-> NewBitMove(from, to, promtype), legal |-> TRUE, b |-> b]

(* the four promotions, queen first: prom := QUEEN; prom >= KNIGHT; prom >>= 1 *)
Promotions(from, to) ==
    <<NewBitMove(from, to, QUEEN), NewBitMove(from, to, ROOK),
      NewBitMove(from, to, BISHOP), NewBitMove(from, to, KNIGHT)>>

(* st = [b, ml]: the board and the moves Put so far *)
PutIfLegal(st, r) ==
    [b |-> r.b, ml |-> IF r.legal THEN Append(st.ml, r.move) ELSE st.ml]

(* a promoting pawn: the four promotions are Put if the try t found the
   move legal *)
PutPromotions(st, t, from, to) ==
    [b |-> t.b, ml |-> IF t.legal THEN st.ml \o Promotions(from, to) ELSE st.ml]

(* GeneratePawnMoves: the en-passant loop from direction d on *)
RECURSIVE PawnEnPassant(_, _, _)
PawnEnPassant(st, color, d) ==
    LET to == st.b.EpSquare
        from == U8(I8(to) + PAWN_CAPTURE_DIRS[Flip(color)][d])
    IN  IF d > 2 THEN st
        ELSE IF OnBoard(from) /\ st.b.Squares[from] = PAWN + color
          THEN PawnEnPassant(
                   PutIfLegal(st, newPawnMoveIfLegal(st.b, color, from, to, PAWN + color,
                                                     PAWN + Flip(color), EMPTY,
                                                     EP_TYPE_CAPTURE)),
                   color, d + 1)
          ELSE PawnEnPassant(st, color, d + 1)

(* GeneratePawnMoves: a. the capture loop of the pawn on from, from
   direction d on *)
RECURSIVE PawnCapture(_, _, _, _)
PawnCapture(st, color, from, d) ==
    LET to == U8(I8(from) + PAWN_CAPTURE_DIRS[color][d])
        tpiece == st.b.Squares[to]
    IN  IF d > 2 THEN st
        ELSE IF ~OnBoard(to) THEN PawnCapture(st, color, from, d + 1)
        ELSE IF ~HasColor(tpiece, Flip(color)) THEN PawnCapture(st, color, from, d + 1)
        ELSE IF IsPawnPromoting(to, color)
          THEN PawnCapture(
                   PutPromotions(st, tryPawnMoveLegality(st.b, from, to, to, tpiece, color),
                                 from, to),
                   color, from, d + 1)
        ELSE PawnCapture(
                 PutIfLegal(st, newPawnMoveIfLegal(st.b, color, from, to, PAWN + color,
                                                   tpiece, EMPTY, EP_TYPE_NONE)),
                 color, from, d + 1)

(* GeneratePawnMoves: c. the double push of the pawn on from, after the push
   by one left the state one *)
PawnDoublePush(one, color, from, to2) ==
    IF IsPawnBaseRank(from, color) /\ IsEmpty(one.b.Squares[to2])
      THEN PutIfLegal(one, newPawnMoveIfLegal(one.b, color, from, to2, PAWN + color,
                                              EMPTY, EMPTY, EP_TYPE_CREATE))
      ELSE one

(* GeneratePawnMoves: b. the push by one of the pawn on from to the empty
   square to *)
PawnSinglePush(st, color, from, to) ==
    IF IsPawnPromoting(to, color)
      THEN PutPromotions(st, tryPawnMoveLegality(st.b, from, to, to, EMPTY, color),
                         from, to)
      ELSE PutIfLegal(st, newPawnMoveIfLegal(st.b, color, from, to, PAWN + color,
                                             EMPTY, EMPTY, EP_TYPE_NONE))

(* GeneratePawnMoves: b. push by one and c. double push of the pawn on from *)
PawnPush(st, color, from) ==
    LET to == U8(I8(from) + PAWN_PUSH_DIRS[color])
    IN  IF ~IsEmpty(st.b.Squares[to]) THEN st
        ELSE PawnDoublePush(PawnSinglePush(st, color, from, to), color, from,
                            U8(I8(to) + PAWN_PUSH_DIRS[color]))

(* GeneratePawnMoves: the loop over the pawn list from entry i on *)
RECURSIVE PawnLoop(_, _, _)
PawnLoop(st, color, i) ==
    IF i > Len(st.b.Pawns[color]) THEN st
    ELSE PawnLoop(PawnPush(PawnCapture(st, color, st.b.Pawns[color][i], 1),
                           color, st.b.Pawns[color][i]),
                  color, i + 1)

(* Board.GeneratePawnMoves: the board it leaves and the moves it Puts *)
GeneratePawnMoves(b, color) ==
    PawnLoop(IF b.EpSquare # OTB
               THEN PawnEnPassant([b |-> b, ml |-> << >>], color, 1)
               ELSE [b |-> b, ml |-> << >>],
             color, 1)

(* GenerateAllLegalMoves, the pieces after the king, the pawns last *)
GenerateOthers(b, king, pawns) ==
    [b |-> pawns.b,
     ml |-> king \o GenerateKnightMoves(b, b.Player)
                 \o GenerateQueenMoves(b, b.Player)
                 \o GenerateBishopMoves(b, b.Player)
                 \o GenerateRookMoves(b, b.Player)
                 \o pawns.ml]

(* GenerateAllLegalMoves after the king moves: nothing else in double check *)
GenerateAfterKing(b, king) ==
    IF b.CheckInfo = CHECK_DOUBLE_CHECK THEN [b |-> b, ml |-> king]
    ELSE GenerateOthers(b, king, GeneratePawnMoves(b, b.Player))

(* GenerateAllLegalMoves on the annotated board *)
GenerateAnnotated(b) == GenerateAfterKing(b, GenerateKingMoves(b, b.Player))

(* Board.GenerateAllLegalMoves on an empty move list: the board it leaves
   and the list *)
GenerateAllLegalMoves(b0) == GenerateAnnotated(DetectChecksAndPins(b0, b0.Player))

----------------------------------------------------------------------------
(* board.go: move application *)

(* the piece lists a piece kind lives in *)
ListsOf(ptype) ==
    CASE ptype = PAWN -> {"Pawns"}
      [] ptype = KNIGHT -> {"Knights"}
      [] ptype = BISHOP -> {"Bishops", "Sliders"}
      [] ptype = ROOK -> {"Rooks", "Sliders"}
      [] ptype = QUEEN -> {"Queens", "Sliders"}
      [] OTHER -> {}

ListNames == {"Pawns", "Knights", "Bishops", "Rooks", "Queens", "Sliders"}

(* one edit of a list: Add(to) when from is OTB, Remove(from) when to is
   OTB, Move(from, to) otherwise *)
EditList(l, from, to) ==
    IF from = OTB THEN PieceListAdd(l, to)
    ELSE IF to = OTB THEN PieceListRemove(l, from)
    ELSE PieceListMove(l, from, to)

(* the same edit of the lists of (ptype, color) *)
EditLists(b, ptype, color, from, to) ==
    LET ed(name, l) == IF name \in ListsOf(ptype)
                         THEN [l EXCEPT ![color] = EditList(l[color], from, to)] ELSE l
    IN  [b EXCEPT !.Pawns = ed("Pawns", @), !.Knights = ed("Knights", @),
                  !.Bishops = ed("Bishops", @), !.Rooks = ed("Rooks", @),
                  !.Queens = ed("Queens", @), !.Sliders = ed("Sliders", @)]

(* addPiece and removePiece panic on any other kind *)
ListedKinds == {PAWN, KNIGHT, BISHOP, ROOK, QUEEN}

(* Board.addPiece *)
addPiece(b, sq, piece) ==
    EditLists([b EXCEPT !.Squares[sq] = piece],
              BitAnd(piece, PIECE_MASK), PieceColor(piece), OTB, sq)

(* removePiece that empties the square and leaves the lists alone *)
removePieceSquareOnly(b, sq) == [b EXCEPT !.Squares[sq] = EMPTY]

(* Board.removePiece *)
removePiece(b, sq) ==
    LET piece == b.Squares[sq]
    IN  EditLists([b EXCEPT !.Squares[sq] = EMPTY],
                  BitAnd(piece, PIECE_MASK), PieceColor(piece), sq, OTB)

(* the inputs on which MakeLegalMove panics: a king is captured, the moved,
   captured or promoted piece is of no kind the switches know *)
MakeLegalMovePanics(b, m) ==
    LET from == MoveFrom(m)
        to == MoveTo(m)
        promo == MovePromo(m)
        oppColor == Flip(b.Player)
        ptype == BitAnd(b.Squares[from], PIECE_MASK)
        tpiece == b.Squares[to]
        capSq == U8(I8(to) + PAWN_PUSH_DIRS[oppColor])
    IN  \/ ~IsEmpty(tpiece) /\ Contains(tpiece, KING)
        \/ ~IsEmpty(tpiece) /\ BitAnd(tpiece, PIECE_MASK) \notin ListedKinds
        \/ /\ IsEmpty(tpiece) /\ ptype = PAWN /\ to = b.EpSquare
           /\ (capSq > 127 \/ BitAnd(b.Squares[capSq % 128], PIECE_MASK) \notin ListedKinds)
        \/ ptype \notin (ListedKinds \cup {KING})
        \/ ptype = PAWN /\ promo # NONE /\ promo \notin ListedKinds

(* MakeLegalMove that leaves the castling rights alone when it captures *)
MakeCaptureKeepsRights(b, from, to) ==
    LET oppColor == Flip(b.Player)
        ptype == BitAnd(b.Squares[from], PIECE_MASK)
        tpiece == b.Squares[to]
    IN  IF ~IsEmpty(tpiece) THEN removePiece(b, to)
        ELSE IF ptype = PAWN /\ to = b.EpSquare
          THEN removePiece(b, U8(I8(to) + PAWN_PUSH_DIRS[oppColor]))
        ELSE b

(* a capture that takes the short castling right only *)
CaptureRightsShortOnly(r, to, oppColor) ==
    IF to = CASTLING_ROOK_SHORT[oppColor]
      THEN [r EXCEPT !.CastleShort[oppColor] = FALSE]
    ELSE r

(* MakeLegalMove: a capture on the home square of a rook of the opponent
   takes the castling right of that side *)
CaptureRights(r, to, oppColor) ==
    IF to = CASTLING_ROOK_SHORT[oppColor]
      THEN [r EXCEPT !.CastleShort[oppColor] = FALSE]
    ELSE IF to = CASTLING_ROOK_LONG[oppColor]
      THEN [r EXCEPT !.CastleLong[oppColor] = FALSE]
    ELSE r

(* MakeLegalMove: the capture, of the piece on to or of the pawn that was
   passed, and the castling right of a rook square that is captured on *)
MakeCapture(b, from, to) ==
    IF ~IsEmpty(b.Squares[to])
      THEN CaptureRights(removePiece(b, to), to, Flip(b.Player))
    ELSE IF BitAnd(b.Squares[from], PIECE_MASK) = PAWN /\ to = b.EpSquare
      THEN removePiece(b, U8(I8(to) + PAWN_PUSH_DIRS[Flip(b.Player)]))
    ELSE b

(* MakeLegalMove that forgets to remove the e.p. square of the move before *)
MoveOnSquaresKeepsEp(b, from, to) ==
    [b EXCEPT !.Squares = [[@ EXCEPT ![to] = b.Squares[from]]
                              EXCEPT ![from] = EMPTY]]

(* MakeLegalMove: the actual move on the board, and no e.p. square *)
MoveOnSquares(b, from, to) ==
    [b EXCEPT !.Squares = [[@ EXCEPT ![to] = b.Squares[from]]
                              EXCEPT ![from] = EMPTY],
              !.EpSquare = OTB]

(* MakeLegalMove that counts every move on the half-move clock as well *)
EndMoveCountsDraw(b) ==
    [b EXCEPT !.Player = Flip(b.Player),
              !.MoveNumber = (@ + 1) % 65536,
              !.DrawCounter = (@ + 1) % 65536]

(* MakeLegalMove: the other player is to move, the move number goes up by
   one in its 16 bits, the draw counter is a TODO *)
EndMove(b) ==
    [b EXCEPT !.Player = Flip(b.Player),
              !.MoveNumber = (@ + 1) % 65536]

(* MakeLegalMove: the switch on the kind of the moved piece, on the board b2
   that has the move on its squares: the piece lists, the e.p. square of a
   double push, the promotion, the castling rights and the rook of a
   castling *)
MoveSpecial(b2, from, to, promo, us, ptype) ==
    CASE ptype = PAWN ->
           LET e == IF CreatesEnPassent(from, to)
                      THEN [b2 EXCEPT !.EpSquare = U8(I8(from) + PAWN_PUSH_DIRS[us])]
                      ELSE b2
           IN  IF promo # NONE
                 THEN addPiece(EditLists(e, PAWN, us, from, OTB), to, promo + us)
                 ELSE EditLists(e, PAWN, us, from, to)
      [] ptype \in {KNIGHT, BISHOP, QUEEN} -> EditLists(b2, ptype, us, from, to)
      [] ptype = ROOK ->
           LET r == IF from = CASTLING_ROOK_SHORT[us]
                      THEN [b2 EXCEPT !.CastleShort[us] = FALSE]
                    ELSE IF from = CASTLING_ROOK_LONG[us]
                      THEN [b2 EXCEPT !.CastleLong[us] = FALSE]
                    ELSE b2
           IN  EditLists(r, ROOK, us, from, to)
      [] ptype = KING ->
           LET k == [b2 EXCEPT !.Kings[us] = to,
                               !.CastleShort[us] = FALSE,
                               !.CastleLong[us] = FALSE]
               shortCastle == from = CASTLING_DETECT_SHORT[us][1]
                              /\ to = CASTLING_DETECT_SHORT[us][2]
               longCastle == from = CASTLING_DETECT_LONG[us][1]
                             /\ to = CASTLING_DETECT_LONG[us][2]
               rookFrom == IF shortCastle THEN CASTLING_ROOK_SHORT[us]
                           ELSE CASTLING_ROOK_LONG[us]
               rookTo == IF shortCastle THEN CASTLING_PATH_SHORT[us][1]
                         ELSE CASTLING_PATH_LONG[us][1]
           IN  IF shortCastle \/ longCastle
                 THEN EditLists([k EXCEPT !.Squares = [[@ EXCEPT ![rookTo] = ROOK + us]
                                                          EXCEPT ![rookFrom] = EMPTY]],
                                ROOK, us, rookFrom, rookTo)
                 ELSE k

(* Board.MakeLegalMove, where it does not panic: the capture, the move on
   the board, the switch, the end *)
MakeLegalMove(b, m) ==
    EndMove(MoveSpecial(MoveOnSquares(MakeCapture(b, MoveFrom(m), MoveTo(m)),
                                      MoveFrom(m), MoveTo(m)),
                        MoveFrom(m), MoveTo(m), MovePromo(m), b.Player,
                        BitAnd(b.Squares[MoveFrom(m)], PIECE_MASK)))

----------------------------------------------------------------------------
(* board.go: perft *)

(* f[lo] + ... + f[hi] *)
RECURSIVE SumRange(_, _, _)
SumRange(f, lo, hi) ==
    IF lo > hi THEN 0
    ELSE IF lo = hi THEN f[lo]
    ELSE LET mid == (lo + hi) \div 2
         IN  SumRange(f, lo, mid) + SumRange(f, mid + 1, hi)

(* Perft that keeps the count of the last move only (= for +=) *)
RECURSIVE PerftLastOnly(_, _)
PerftLastOnly(b, depth) ==
    IF depth <= 0 THEN [n |-> 1, b |-> b]
    ELSE
    LET cpy == b
        g == GenerateAllLegalMoves(b)
        size == Len(g.ml)
        last == PerftLastOnly(MakeLegalMove(IF size = 1 THEN g.b ELSE cpy, g.ml[size]),
                              depth - 1).n
    IN  IF depth = 1 THEN [n |-> size, b |-> g.b]
        ELSE [n |-> IF size = 0 THEN 0 ELSE last, b |-> IF size = 0 THEN g.b ELSE cpy]

(* Perft that returns 1 below depth 0 only (< for <=) *)
RECURSIVE PerftFromZero(_, _)
PerftFromZero(b, depth) ==
    IF depth < 0 THEN [n |-> 1, b |-> b]
    ELSE
    LET cpy == b
        g == GenerateAllLegalMoves(b)
        size == Len(g.ml)
        sub == [i \in 1..size |->
                   PerftFromZero(MakeLegalMove(IF i = 1 THEN g.b ELSE cpy, g.ml[i]),
                                 depth - 1).n]
    IN  IF depth = 1 THEN [n |-> size, b |-> g.b]
        ELSE [n |-> SumRange(sub, 1, size), b |-> IF size = 0 THEN g.b ELSE cpy]

(* Board.Perft: the count it returns and the board it leaves. The first
   move is made on the board as GenerateAllLegalMoves left it, every later
   one on the restored copy. *)
RECURSIVE Perft(_, _)

(* Perft at depth 1 and more, once the moves g.ml were generated; cpy is
   the copy taken before *)
PerftMoves(cpy, g, depth) ==
    IF depth = 1 THEN [n |-> Len(g.ml), b |-> g.b]
    ELSE [n |-> SumRange([i \in 1..Len(g.ml) |->
                             Perft(MakeLegalMove(IF i = 1 THEN g.b ELSE cpy, g.ml[i]),
                                   depth - 1).n],
                         1, Len(g.ml)),
          b |-> IF Len(g.ml) = 0 THEN g.b ELSE cpy]

Perft(b, depth) ==
    IF depth <= 0 THEN [n |-> 1, b |-> b]
    ELSE PerftMoves(b, GenerateAllLegalMoves(b), depth)

(* PerftDivide: the map from the notation of each move to the count below
   it, counts of moves with one notation added up *)
DivideResults(ml, sub) ==
    [k \in {MiniNotation(ml[i]) : i \in 1..Len(ml)} |->
        SumRange([i \in 1..Len(ml) |-> IF MiniNotation(ml[i]) = k THEN sub[i] ELSE 0],
                 1, Len(ml))]

(* PerftDivide once the moves g.ml were generated: Perft below each move at
   depth below *)
DivideMoves(cpy, g, below) ==
    [results |-> DivideResults(g.ml,
                     [i \in 1..Len(g.ml) |->
                         Perft(MakeLegalMove(IF i = 1 THEN g.b ELSE cpy, g.ml[i]),
                               below).n]),
     b |-> IF Len(g.ml) = 0 THEN g.b ELSE cpy]

(* PerftDivide that counts depth plies below each move (depth for depth - 1) *)
PerftDivideTooDeep(b, depth) == DivideMoves(b, GenerateAllLegalMoves(b), depth)

(* PerftDivide that restores the copy before each move instead of after it *)
PerftDivideRestoresBefore(b, depth) ==
    LET g == GenerateAllLegalMoves(b)
        size == Len(g.ml)
    IN  [results |-> DivideMoves(b, g, depth - 1).results,
         b |-> IF size = 0 THEN g.b
               ELSE Perft(MakeLegalMove(IF size = 1 THEN g.b ELSE b, g.ml[size]),
                          depth - 1).b]

(* Board.PerftDivide: the map it returns and the board it leaves *)
PerftDivide(b, depth) == DivideMoves(b, GenerateAllLegalMoves(b), depth - 1)

----------------------------------------------------------------------------
(* the FEN strings the operations are called with, one character per
   element *)

(* rnbqkbnr/pppppppp/8/8/8/8/PPPPPPPP/RNBQKBNR w KQkq - 0 1 : the starting position (NewBoard, SetStartingPosition) *)
FEN_START ==
    <<"r", "n", "b", "q", "k", "b", "n", "r", "/", "p", "p", "p", "p", "p",
      "p", "p", "p", "/", "8", "/", "8", "/", "8", "/", "8", "/", "P", "P",
      "P", "P", "P", "P", "P", "P", "/", "R", "N", "B", "Q", "K", "B", "N",
      "R", " ", "w", " ", "K", "Q", "k", "q", " ", "-", " ", "0", " ", "1">>

(* r3k2r/p1ppqpb1/bn2pnp1/3PN3/1p2P3/2N2Q1p/PPPBBPPP/R3K2R w KQkq - 0 1 *)
FEN_KIWIPETE ==
    <<"r", "3", "k", "2", "r", "/", "p", "1", "p", "p", "q", "p", "b", "1",
      "/", "b", "n", "2", "p", "n", "p", "1", "/", "3", "P", "N", "3", "/",
      "1", "p", "2", "P", "3", "/", "2", "N", "2", "Q", "1", "p", "/", "P",
      "P", "P", "B", "B", "P", "P", "P", "/", "R", "3", "K", "2", "R", " ",
      "w", " ", "K", "Q", "k", "q", " ", "-", " ", "0", " ", "1">>

(* 8/2p5/3p4/KP5r/1R3p1k/8/4P1P1/8 w - - 0 1 *)
FEN_ENDGAME ==
    <<"8", "/", "2", "p", "5", "/", "3", "p", "4", "/", "K", "P", "5", "r",
      "/", "1", "R", "3", "p", "1", "k", "/", "8", "/", "4", "P", "1", "P",
      "1", "/", "8", " ", "w", " ", "-", " ", "-", " ", "0", " ", "1">>

(* r3k2r/Pppp1ppp/1b3nbN/nP6/BBP1P3/q4N2/Pp1P2PP/R2Q1RK1 w kq - 0 1 *)
FEN_DENSE ==
    <<"r", "3", "k", "2", "r", "/", "P", "p", "p", "p", "1", "p", "p", "p",
      "/", "1", "b", "3", "n", "b", "N", "/", "n", "P", "6", "/", "B", "B",
      "P", "1", "P", "3", "/", "q", "4", "N", "2", "/", "P", "p", "1", "P",
      "2", "P", "P", "/", "R", "2", "Q", "1", "R", "K", "1", " ", "w", " ",
      "k", "q", " ", "-", " ", "0", " ", "1">>

(* n1n5/PPPk4/8/8/8/8/4Kppp/5N1N b - - 0 1 *)
FEN_PROMO ==
    <<"n", "1", "n", "5", "/", "P", "P", "P", "k", "4", "/", "8", "/", "8",
      "/", "8", "/", "8", "/", "4", "K", "p", "p", "p", "/", "5", "N", "1",
      "N", " ", "b", " ", "-", " ", "-", " ", "0", " ", "1">>

(* 8/8/8/2k5/3Pp3/8/8/4K3 b - d3 0 1 : the pawn that just double-pushed gives check; en passant captures it *)
FEN_EP_CHECK ==
    <<"8", "/", "8", "/", "8", "/", "2", "k", "5", "/", "3", "P", "p", "3",
      "/", "8", "/", "8", "/", "4", "K", "3", " ", "b", " ", "-", " ", "d",
      "3", " ", "0", " ", "1">>

(* 8/8/8/8/k2Pp2Q/8/8/4K3 b - d3 0 1 : en passant would uncover the queen's check along the rank *)
FEN_EP_RANK ==
    <<"8", "/", "8", "/", "8", "/", "8", "/", "k", "2", "P", "p", "2", "Q",
      "/", "8", "/", "8", "/", "4", "K", "3", " ", "b", " ", "-", " ", "d",
      "3", " ", "0", " ", "1">>

(* r3k3/8/8/8/8/8/8/4K2R w Kq - 0 1 : both sides may castle *)
FEN_CASTLE ==
    <<"r", "3", "k", "3", "/", "8", "/", "8", "/", "8", "/", "8", "/", "8",
      "/", "8", "/", "4", "K", "2", "R", " ", "w", " ", "K", "q", " ", "-",
      " ", "0", " ", "1">>

(* 4k3/8/8/8/8/8/6r1/R3K2R w KQ - 0 1 : the short castling destination is attacked *)
FEN_CASTLE_ATTACKED ==
    <<"4", "k", "3", "/", "8", "/", "8", "/", "8", "/", "8", "/", "8", "/",
      "6", "r", "1", "/", "R", "3", "K", "2", "R", " ", "w", " ", "K", "Q",
      " ", "-", " ", "0", " ", "1">>

(* 1n6/P1k5/8/8/8/8/8/4K3 w - - 0 1 : promotion by push and by capture *)
FEN_PAWN7 ==
    <<"1", "n", "6", "/", "P", "1", "k", "5", "/", "8", "/", "8", "/", "8",
      "/", "8", "/", "8", "/", "4", "K", "3", " ", "w", " ", "-", " ", "-",
      " ", "0", " ", "1">>

(* 4r1k1/8/8/8/8/5n2/6P1/4K3 w - - 0 1 : double check by rook and knight *)
FEN_DOUBLE ==
    <<"4", "r", "1", "k", "1", "/", "8", "/", "8", "/", "8", "/", "8", "/",
      "5", "n", "2", "/", "6", "P", "1", "/", "4", "K", "3", " ", "w", " ",
      "-", " ", "-", " ", "0", " ", "1">>

(* 4q1k1/8/8/b7/4R3/8/3P4/r2NK3 w - - 0 1 : three pinned pieces *)
FEN_PINS ==
    <<"4", "q", "1", "k", "1", "/", "8", "/", "8", "/", "b", "7", "/", "4",
      "R", "3", "/", "8", "/", "3", "P", "4", "/", "r", "2", "N", "K", "3",
      " ", "w", " ", "-", " ", "-", " ", "0", " ", "1">>

(* 4r1k1/8/8/8/8/8/3B4/4K2R w - - 0 1 : single check that can be blocked *)
FEN_BLOCK ==
    <<"4", "r", "1", "k", "1", "/", "8", "/", "8", "/", "8", "/", "8", "/",
      "8", "/", "3", "B", "4", "/", "4", "K", "2", "R", " ", "w", " ", "-",
      " ", "-", " ", "0", " ", "1">>

(* 4r1k1/4r3/8/8/8/8/8/3QK3 w - - 0 1 : two rooks on the file of the king they check *)
FEN_BATTERY ==
    <<"4", "r", "1", "k", "1", "/", "4", "r", "3", "/", "8", "/", "8", "/",
      "8", "/", "8", "/", "8", "/", "3", "Q", "K", "3", " ", "w", " ", "-",
      " ", "-", " ", "0", " ", "1">>

(* 7k/6Q1/6K1/8/8/8/8/8 b - - 0 1 : checkmate: no legal move, king in check *)
FEN_MATE ==
    <<"7", "k", "/", "6", "Q", "1", "/", "6", "K", "1", "/", "8", "/", "8",
      "/", "8", "/", "8", "/", "8", " ", "b", " ", "-", " ", "-", " ", "0",
      " ", "1">>

(* 7k/5Q2/6K1/8/8/8/8/8 b - - 0 1 : stalemate: no legal move, king not in check *)
FEN_STALE ==
    <<"7", "k", "/", "5", "Q", "2", "/", "6", "K", "1", "/", "8", "/", "8",
      "/", "8", "/", "8", "/", "8", " ", "b", " ", "-", " ", "-", " ", "0",
      " ", "1">>

(* 1r2k3/8/8/8/8/8/8/R3K3 w Q - 0 1 : long castling while the b-file square is attacked *)
FEN_CASTLE_BFILE ==
    <<"1", "r", "2", "k", "3", "/", "8", "/", "8", "/", "8", "/", "8", "/",
      "8", "/", "8", "/", "R", "3", "K", "3", " ", "w", " ", "Q", " ", "-",
      " ", "0", " ", "1">>

(* r3k2r/8/8/8/8/8/8/R3K2R w KQkq - 0 1 : all four castling rights, rooks that can capture each other *)
FEN_CASTLE_BOTH ==
    <<"r", "3", "k", "2", "r", "/", "8", "/", "8", "/", "8", "/", "8", "/",
      "8", "/", "8", "/", "R", "3", "K", "2", "R", " ", "w", " ", "K", "Q",
      "k", "q", " ", "-", " ", "0", " ", "1">>

(* 4r2k/8/8/3pP3/8/8/8/4K3 w - d6 0 1 : the pawn that could capture en passant is pinned on its file *)
FEN_EP_PINNED ==
    <<"4", "r", "2", "k", "/", "8", "/", "8", "/", "3", "p", "P", "3", "/",
      "8", "/", "8", "/", "8", "/", "4", "K", "3", " ", "w", " ", "-", " ",
      "d", "6", " ", "0", " ", "1">>

(* 4k3/8/8/8/8/8/4P3/4K3 w - - 7 65535 : the last move number of 16 bits, a half-move clock of 7 *)
FEN_COUNTERS ==
    <<"4", "k", "3", "/", "8", "/", "8", "/", "8", "/", "8", "/", "8", "/",
      "4", "P", "3", "/", "4", "K", "3", " ", "w", " ", "-", " ", "-", " ",
      "7", " ", "6", "5", "5", "3", "5">>

(* 6k1/8/8/8/1b6/8/8/3rKN1r w - - 0 1 : double check by bishop and rook, a knight pinned by the other rook *)
FEN_DOUBLE_PIN ==
    <<"6", "k", "1", "/", "8", "/", "8", "/", "8", "/", "1", "b", "6", "/",
      "8", "/", "8", "/", "3", "r", "K", "N", "1", "r", " ", "w", " ", "-",
      " ", "-", " ", "0", " ", "1">>

(* 8/8/8/8/8/8/8/8 w - - 0 : malformed: five fields *)
FEN_BAD_FIELDS ==
    <<"8", "/", "8", "/", "8", "/", "8", "/", "8", "/", "8", "/", "8", "/",
      "8", " ", "w", " ", "-", " ", "-", " ", "0">>

(* 4k3/8/8/8/8/8/8/4X3 w - - 0 1 : malformed: illegal piece character *)
FEN_BAD_PIECE ==
    <<"4", "k", "3", "/", "8", "/", "8", "/", "8", "/", "8", "/", "8", "/",
      "8", "/", "4", "X", "3", " ", "w", " ", "-", " ", "-", " ", "0", " ",
      "1">>

(* 4k3/8/8/8/8/8/8/4K3 w KX - 0 1 : malformed: bad castling string *)
FEN_BAD_CASTLING ==
    <<"4", "k", "3", "/", "8", "/", "8", "/", "8", "/", "8", "/", "8", "/",
      "8", "/", "4", "K", "3", " ", "w", " ", "K", "X", " ", "-", " ", "0",
      " ", "1">>

(* 4k3/8/8/8/8/8/8/4K3 w - e9 0 1 : malformed: bad en-passant square *)
FEN_BAD_EP ==
    <<"4", "k", "3", "/", "8", "/", "8", "/", "8", "/", "8", "/", "8", "/",
      "8", "/", "4", "K", "3", " ", "w", " ", "-", " ", "e", "9", " ", "0",
      " ", "1">>

(* 4k3/8/8/8/8/8/8/4K3 w - - x 1 : malformed: non-numeric counter *)
FEN_BAD_COUNTER ==
    <<"4", "k", "3", "/", "8", "/", "8", "/", "8", "/", "8", "/", "8", "/",
      "8", "/", "4", "K", "3", " ", "w", " ", "-", " ", "-", " ", "x", " ",
      "1">>

(* the strings a caller passes to SetFEN: positions, the positions of the
   perft table, malformed strings *)
GameFENs ==
    {FEN_START, FEN_EP_CHECK, FEN_EP_RANK, FEN_EP_PINNED, FEN_CASTLE,
     FEN_CASTLE_ATTACKED, FEN_CASTLE_BFILE, FEN_CASTLE_BOTH, FEN_PAWN7,
     FEN_COUNTERS, FEN_DOUBLE, FEN_DOUBLE_PIN, FEN_PINS, FEN_BLOCK,
     FEN_BATTERY, FEN_MATE, FEN_STALE}
PerftFENs == {FEN_START, FEN_KIWIPETE, FEN_ENDGAME, FEN_DENSE, FEN_PROMO}
BadFENs ==
    {FEN_BAD_FIELDS, FEN_BAD_PIECE, FEN_BAD_CASTLING, FEN_BAD_EP,
     FEN_BAD_COUNTER}

Range(s) == {s[j] : j \in 1..Len(s)}

----------------------------------------------------------------------------
(* the program as a state machine: one Board, the FEN its position was
   loaded from, the move list its caller holds, the number of moves made
   since the load, and the last call with what it returned *)

VARIABLES board, fen, mlist, ply, op
vars == <<board, fen, mlist, ply, op>>

(* the longest line of moves made from a loaded position *)
MaxPly == 2
(* the greatest depth Perft and PerftDivide are called with *)
MaxDepth == 2
Depths == -1..MaxDepth

(* a call: its name, its arguments, and what it returned (err for SetFEN,
   n for the counts, results for the map of PerftDivide) *)
Call(name, arg, err, n, results) ==
    [name |-> name, arg |-> arg, err |-> err, n |-> n, results |-> results]

(* NewBoard: the zero Board with the fields NewBoard assigns, then
   SetStartingPosition *)
NewBoard == SetFEN(ZeroBoard, FEN_START).b

Init ==
    /\ board = NewBoard
    /\ fen = FEN_START
    /\ mlist = << >>
    /\ ply = 0
    /\ op = Call("NewBoard", << >>, FALSE, 0, << >>)

(* err := b.SetFEN(fenstr) *)
DoSetFEN(fenstr) ==
    \E r \in {SetFEN(board, fenstr)} :
        /\ board' = r.b
        /\ fen' = IF r.err THEN fen ELSE fenstr
        /\ mlist' = IF r.err THEN mlist ELSE << >>
        /\ ply' = IF r.err THEN ply ELSE 0
        /\ op' = Call("SetFEN", << >>, r.err, 0, << >>)

(* a position is loaded when no line is being played; a malformed string
   may arrive at any time *)
LoadPosition(fens) == ply = 0 /\ \E fenstr \in fens : DoSetFEN(fenstr)
LoadMalformed == \E fenstr \in BadFENs : DoSetFEN(fenstr)

(* mlist.Clear(); b.GenerateAllLegalMoves(&mlist) *)
DoGenerateAllLegalMoves ==
    \E g \in {GenerateAllLegalMoves(board)} :
        /\ board' = g.b
        /\ mlist' = g.ml
        /\ op' = Call("GenerateAllLegalMoves", << >>, FALSE, Len(g.ml), << >>)
        /\ UNCHANGED <<fen, ply>>

(* b.MakeLegalMove(mlist.Moves[k]) for a move of the list generated for the
   current position; a panic ends the process *)
DoMakeLegalMove(k) ==
    /\ op.name = "GenerateAllLegalMoves"
    /\ k \in 1..Len(mlist)
    /\ ply < MaxPly
    /\ IF MakeLegalMovePanics(board, mlist[k])
         THEN /\ op' = Call("panic", <<mlist[k]>>, TRUE, 0, << >>)
              /\ UNCHANGED <<board, fen, mlist, ply>>
         ELSE /\ board' = MakeLegalMove(board, mlist[k])
              /\ mlist' = << >>
              /\ ply' = ply + 1
              /\ op' = Call("MakeLegalMove", <<mlist[k]>>, FALSE, 0, << >>)
              /\ UNCHANGED fen

(* n := b.Perft(depth) *)
DoPerft(depth) ==
    \E r \in {Perft(board, depth)} :
        /\ board' = r.b
        /\ mlist' = << >>
        /\ op' = Call("Perft", <<depth>>, FALSE, r.n, << >>)
        /\ UNCHANGED <<fen, ply>>

(* results := b.PerftDivide(depth) *)
DoPerftDivide(depth) ==
    \E r \in {PerftDivide(board, depth)} :
        /\ board' = r.b
        /\ mlist' = << >>
        /\ op' = Call("PerftDivide", <<depth>>, FALSE, 0, r.results)
        /\ UNCHANGED <<fen, ply>>

(* b.IsSquareAttacked(sq, ignoreSq, color) *)
DoIsSquareAttacked(sq, ignoreSq, color) ==
    /\ op' = Call("IsSquareAttacked", <<sq, ignoreSq, color>>, FALSE,
                  IF IsSquareAttacked(board, sq, ignoreSq, color) THEN 1 ELSE 0,
                  << >>)
    /\ UNCHANGED <<board, fen, mlist, ply>>

Running == op.name # "panic"

(* a game: positions are loaded, moves are generated and made *)
Next ==
    \/ Running /\ LoadPosition(GameFENs)
    \/ Running /\ LoadMalformed
    \/ Running /\ DoGenerateAllLegalMoves
    \/ Running /\ \E k \in 1..Len(mlist) : DoMakeLegalMove(k)

Spec == Init /\ [][Next]_vars

(* perft: positions are loaded and counted *)
NextPerft ==
    \/ LoadPosition(PerftFENs \cup GameFENs)
    \/ \E depth \in Depths : DoPerft(depth)
    \/ \E depth \in Depths : DoPerftDivide(depth)

SpecPerft == Init /\ [][NextPerft]_vars

(* the attack detector asked about every square of loaded positions; it
   leaves the Board alone, so a run that ends with one question covers every
   sequence of questions *)
AttackFENs ==
    {FEN_START, FEN_KIWIPETE, FEN_EP_RANK, FEN_PINS, FEN_PROMO, FEN_BATTERY}

NextAttack ==
    \/ op.name # "IsSquareAttacked" /\ LoadPosition(AttackFENs)
    \/ /\ op.name # "IsSquareAttacked"
       /\ \E sq \in Playable, ignoreSq \in Playable \cup {OTB}, color \in Colors :
              DoIsSquareAttacked(sq, ignoreSq, color)

SpecAttack == Init /\ [][NextAttack]_vars


(* the table reads of the attack detector and of the annotator for a square
   and the square of a slider: diff := sq.Diff(sliderSq), then
   SQUARE_DIFFS[diff] and DIFF_DIRS[diff]; as the detector, they leave the
   Board alone *)
DoDiff(from, to) ==
    \E d \in {Diff(from, to)} :
        /\ op' = Call("Diff", <<from, to>>, FALSE, DIFF_DIRS[d], SQUARE_DIFFS[d])
        /\ UNCHANGED <<board, fen, mlist, ply>>

NextDiff ==
    \/ op.name # "Diff" /\ LoadPosition(AttackFENs)
    \/ op.name # "Diff" /\ \E from \in Playable, to \in Playable : DoDiff(from, to)

SpecDiff == Init /\ [][NextDiff]_vars
----------------------------------------------------------------------------
(* the rules of chess read off the playable squares alone: what the claims
   compare the generator and the attack detector with *)

RefKind(p) == IF p >= EMPTY THEN NONE ELSE p - (p % 2)
RefColor(p) == p % 2
RefOwn(squares, s, side) ==
    squares[s] # EMPTY /\ RefKind(squares[s]) # NONE /\ RefColor(squares[s]) = side
RefUp(side) == IF side = WHITE THEN 16 ELSE -16
RefKnightSteps == {14, 18, 31, 33, -14, -18, -31, -33}
RefKingSteps == {1, -1, 16, -16, 15, 17, -15, -17}
RefLines(kind) ==
    CASE kind = BISHOP -> {15, 17, -15, -17}
      [] kind = ROOK -> {1, -1, 16, -16}
      [] kind = QUEEN -> {1, -1, 16, -16, 15, 17, -15, -17}
      [] OTHER -> {}

(* the squares a slider on s sees along step: every square up to and
   including the first occupied one *)
RefSeen(squares, s, step) ==
    {s + n * step : n \in {h \in 1..7 :
        /\ \A j \in 1..h : (s + j * step) \in Playable
        /\ \A j \in 1..(h - 1) : squares[s + j * step] = EMPTY}}

(* the piece standing on s attacks the square target *)
RefAttacks(squares, s, target) ==
    LET kind == RefKind(squares[s])
        side == RefColor(squares[s])
    IN  CASE kind = PAWN -> (target - s) \in {RefUp(side) - 1, RefUp(side) + 1}
          [] kind = KNIGHT -> (target - s) \in RefKnightSteps
          [] kind = KING -> (target - s) \in RefKingSteps
          [] OTHER -> \E step \in RefLines(kind) : target \in RefSeen(squares, s, step)

(* some piece of colour side attacks the square target *)
RefAttacked(squares, target, side) ==
    \E s \in Playable : RefOwn(squares, s, side) /\ RefAttacks(squares, s, target)

(* the square of the king of colour side *)
RefKing(squares, side) ==
    CHOOSE s \in Playable : squares[s] = KING + side

(* a move in the 16 bits of a BitMove *)
RefIndex(s) == 8 * (s \div 16) + (s % 16)
RefBitMove(from, to, kind) ==
    RefIndex(from) + 64 * RefIndex(to) + 4096 * (kind \div 4)

(* the squares after the piece on from has gone to to, the piece on gone
   (if any square) has left the board, and a second piece has gone from
   rookFrom to rookTo *)
RefAfter(squares, from, to, gone, rookFrom, rookTo) ==
    [s \in 0..127 |->
        CASE s = to -> squares[from]
          [] s = rookTo -> squares[rookFrom]
          [] s \in {from, gone, rookFrom} -> EMPTY
          [] OTHER -> squares[s]]

(* the mover's king is not attacked once the move is on the board *)
RefSafe(squares, side, from, to, gone, rookFrom, rookTo) ==
    LET after == Array(RefAfter(squares, from, to, gone, rookFrom, rookTo))
    IN  ~RefAttacked(after, RefKing(after, side), 1 - side)

(* steps and slides of knights, kings, bishops, rooks and queens *)
RefPieceMoves(squares, side) ==
    {RefBitMove(ft[1], ft[2], NONE) : ft \in
        {ft \in Playable \X Playable :
            /\ RefOwn(squares, ft[1], side)
            /\ RefKind(squares[ft[1]]) # PAWN
            /\ ~RefOwn(squares, ft[2], side)
            /\ RefAttacks(squares, ft[1], ft[2])
            /\ RefSafe(squares, side, ft[1], ft[2], OTB, OTB, OTB)}}

(* pawn moves: pushes, double pushes, captures, en-passant captures, each
   to the last rank once per promotion piece *)
RefPromotions(to, side) ==
    IF to \div 16 = (IF side = WHITE THEN 7 ELSE 0)
      THEN {QUEEN, ROOK, BISHOP, KNIGHT} ELSE {NONE}

RefPawnTargets(squares, side, ep, from) ==
    LET up == RefUp(side)
        home == from \div 16 = (IF side = WHITE THEN 1 ELSE 6)
        push == IF (from + up) \in Playable /\ squares[from + up] = EMPTY
                  THEN {<<from + up, OTB>>} ELSE {}
        double == IF home /\ push # {} /\ squares[from + 2 * up] = EMPTY
                    THEN {<<from + 2 * up, OTB>>} ELSE {}
        capture == {<<to, OTB>> : to \in
                       {to \in {from + up - 1, from + up + 1} \cap Playable :
                           RefOwn(squares, to, 1 - side)}}
        passing == {<<to, to - up>> : to \in
                       {to \in {from + up - 1, from + up + 1} \cap Playable :
                           to = ep /\ squares[to - up] = PAWN + (1 - side)}}
    IN  {tg \in push \cup double \cup capture \cup passing :
            RefSafe(squares, side, from, tg[1], tg[2], OTB, OTB)}

RefPawnMoves(squares, side, ep) ==
    UNION {UNION {{RefBitMove(from, tg[1], kind) :
                      kind \in RefPromotions(tg[1], side)} :
                  tg \in RefPawnTargets(squares, side, ep, from)} :
           from \in {s \in Playable : squares[s] = PAWN + side}}

(* castling: the right is held, king and rook stand on their home squares,
   the squares between them are empty, the king is not in check and crosses
   no attacked square *)
RefCastles(squares, side, short, long) ==
    LET home == IF side = WHITE THEN 4 ELSE 116
        free(S) == \A s \in S : squares[s] = EMPTY
        calm(S) == \A s \in S : ~RefAttacked(squares, s, 1 - side)
    IN  (IF /\ short /\ squares[home] = KING + side
            /\ squares[home + 3] = ROOK + side
            /\ free({home + 1, home + 2})
            /\ calm({home, home + 1, home + 2})
           THEN {RefBitMove(home, home + 2, NONE)} ELSE {})
        \cup
        (IF /\ long /\ squares[home] = KING + side
            /\ squares[home - 4] = ROOK + side
            /\ free({home - 1, home - 2, home - 3})
            /\ calm({home, home - 1, home - 2})
           THEN {RefBitMove(home, home - 2, NONE)} ELSE {})

(* the strictly legal moves of the player to move in position pos *)
RefLegalMoves(pos) ==
    RefPieceMoves(pos.Squares, pos.Player)
        \cup RefPawnMoves(pos.Squares, pos.Player, pos.EpSquare)
        \cup RefCastles(pos.Squares, pos.Player,
                        pos.CastleShort[pos.Player], pos.CastleLong[pos.Player])

(* the player to move is in check *)
RefInCheck(pos) ==
    RefAttacked(pos.Squares, RefKing(pos.Squares, pos.Player), 1 - pos.Player)

----------------------------------------------------------------------------
(* C1: after MakeLegalMove(m), for a move m of the list generated for the
   position, the king of the side that moved is not attacked:
   IsSquareAttacked(Kings[mover], OTB, mover) is false *)
C1_Soundness ==
    op.name = "MakeLegalMove" =>
        ~IsSquareAttacked(board, board.Kings[Flip(board.Player)], OTB,
                          Flip(board.Player))

(* a move has been made that captured en passant, castled or promoted, or
   that answered a check *)
C1_Witness ==
    /\ op.name = "MakeLegalMove"
    /\ fen = FEN_EP_CHECK
    /\ ply = 1
    /\ board.Squares[51] = EMPTY
    /\ board.Squares[35] = BPAWN

(* C2: the list GenerateAllLegalMoves fills holds exactly the strictly legal
   moves of the position, as the rules of chess give them *)
C2_Completeness ==
    op.name = "GenerateAllLegalMoves" => Range(mlist) = RefLegalMoves(board)

C2_Witness ==
    /\ op.name = "GenerateAllLegalMoves"
    /\ ply = MaxPly
    /\ RefInCheck(board)
    /\ Len(mlist) > 1

----------------------------------------------------------------------------
(* claims about Perft and PerftDivide, checked under SpecPerft *)

(* the rows of the perft table of the specification: depth 1, depth 2,
   depth 3 *)
PerftTable(fenstr) ==
    CASE fenstr = FEN_START -> <<20, 400, 8902>>
      [] fenstr = FEN_KIWIPETE -> <<48, 2039, 97862>>
      [] fenstr = FEN_ENDGAME -> <<14, 191, 2812>>
      [] fenstr = FEN_DENSE -> <<6, 264, 9467>>
      [] fenstr = FEN_PROMO -> <<24, 496, 9483>>

(* C3: SetFEN of one of the five FENs of the perft table followed by
   Perft(1) returns 20, 48, 14, 6, 24 and by Perft(2) returns 400, 2039,
   191, 264, 496 *)
C3_PerftTable ==
    (/\ op.name = "Perft" /\ ply = 0 /\ fen \in PerftFENs
     /\ op.arg[1] \in 1..3)
        => op.n = PerftTable(fen)[op.arg[1]]

C3_Witness ==
    /\ op.name = "Perft" /\ op.arg = <<2>> /\ fen = FEN_KIWIPETE /\ op.n = 2039

(* the leaves below the legal move mv of position pos, depth plies deep *)
LeavesAfter(pos, mv, depth) == Perft(MakeLegalMove(pos, mv), depth).n

(* the leaves below all the moves of the set moves, summed *)
LeavesBelow(pos, moves, depth) ==
    SumRange([j \in 1..Cardinality(moves) |-> LeavesAfter(pos, Nth(moves, j), depth)],
             1, Cardinality(moves))

(* C4: Perft(d) returns 1 for d <= 0, the number of strictly legal moves of
   the position for d = 1 (each counted once, 0 in checkmate or stalemate),
   and for d >= 2 the sum over every legal move m of Perft(d - 1) in the
   position after m *)
C4_PerftCounts ==
    op.name = "Perft" =>
        LET d == op.arg[1]
            legal == RefLegalMoves(board)
        IN  /\ d <= 0 => op.n = 1
            /\ d = 1 => op.n = Cardinality(legal)
            /\ d >= 2 => op.n = LeavesBelow(board, legal, d - 1)

(* Perft(2) has counted the leaves of a position with captures, castling
   and checks; Perft(1) has returned 0 in a checkmate *)
C4_Witness ==
    /\ op.name = "Perft" /\ op.arg = <<MaxDepth>> /\ fen = FEN_DENSE /\ op.n > 6

(* the keys of PerftDivide are the mini-notations of the legal moves and
   each value is Perft(depth - 1) of the position after the move *)
DivideKeysAndValues ==
    LET d == op.arg[1]
        legal == RefLegalMoves(board)
    IN  /\ DOMAIN op.results = {MiniNotation(mv) : mv \in legal}
        /\ \A mv \in legal :
               op.results[MiniNotation(mv)] = LeavesAfter(board, mv, d - 1)

(* the values of the map f over the keys S, summed *)
RECURSIVE SumValues(_, _)
SumValues(f, S) ==
    IF S = {} THEN 0
    ELSE LET key == CHOOSE e \in S : TRUE
         IN  f[key] + SumValues(f, S \ {key})

(* the values of the map PerftDivide returned, summed *)
DivideTotal == SumValues(op.results, DOMAIN op.results)

(* C5 as stated: the keys are the mini-notations of the legal moves, each
   value is Perft(depth - 1) of the successor, and the values sum to
   Perft(depth), for every depth the caller passes *)
C5_AsStated ==
    op.name = "PerftDivide" =>
        /\ DivideKeysAndValues
        /\ DivideTotal = Perft(board, op.arg[1]).n

(* C5: the keys are the mini-notations of the legal moves and each value is
   Perft(depth - 1) of the successor, for every depth; the values sum to
   Perft(depth) for every depth >= 1 *)
C5_Divide ==
    op.name = "PerftDivide" =>
        /\ DivideKeysAndValues
        /\ op.arg[1] >= 1 => DivideTotal = Perft(board, op.arg[1]).n

C5_Witness ==
    /\ op.name = "PerftDivide" /\ op.arg = <<MaxDepth>> /\ fen = FEN_PROMO
    /\ Cardinality(DOMAIN op.results) = 24

(* the fields of a position that Perft and PerftDivide restore *)
SamePosition(before, after) ==
    /\ \A s \in Playable : after.Squares[s] = before.Squares[s]
    /\ \A name \in ListNames : after[name] = before[name]
    /\ after.Kings = before.Kings
    /\ after.Player = before.Player
    /\ after.CastleShort = before.CastleShort
    /\ after.CastleLong = before.CastleLong
    /\ after.EpSquare = before.EpSquare
    /\ after.MoveNumber = before.MoveNumber
    /\ after.DrawCounter = before.DrawCounter

(* C9: when Perft(depth) or PerftDivide(depth) returns, playable squares,
   piece lists, Kings, Player, castling rights, EpSquare, MoveNumber and
   DrawCounter are what they were at entry *)
C9_SnapshotUndo ==
    [][op'.name \in {"Perft", "PerftDivide"} => SamePosition(board, board')]_vars

C9_Witness ==
    /\ op.name = "PerftDivide" /\ op.arg = <<MaxDepth>> /\ fen = FEN_KIWIPETE
    /\ DivideTotal = 2039

----------------------------------------------------------------------------
(* claims about generation in check, SetFEN and the piece lists, checked
   under Spec *)

(* the move mv of the player to move captures the piece on square checker,
   directly or en passant *)
CapturesChecker(pos, mv, checker) ==
    \/ MoveTo(mv) = checker
    \/ /\ pos.Squares[MoveFrom(mv)] = PAWN + pos.Player
       /\ MoveTo(mv) = pos.EpSquare
       /\ MoveTo(mv) - RefUp(pos.Player) = checker

(* the move mv takes the king of the player to move to a square the enemy
   does not attack *)
KingEscapes(pos, mv) ==
    /\ MoveFrom(mv) = pos.Kings[pos.Player]
    /\ RefSafe(pos.Squares, pos.Player, MoveFrom(mv), MoveTo(mv), OTB, OTB, OTB)

(* the destination of mv lies on the check ray: its info byte carries CHECK *)
Interposes(pos, mv) ==
    IsSet(pos.Squares[ToInfoIndex(MoveTo(mv))], INFO_MASK_CHECK)

(* C6: after GenerateAllLegalMoves, in double check every move starts on
   the king's square; with a single checker every move captures the
   checker (also en passant), goes to a square whose info byte carries
   CHECK, or is a king move to a square the enemy does not attack *)
C6_CheckEvasion ==
    op.name = "GenerateAllLegalMoves" =>
        /\ board.CheckInfo = CHECK_DOUBLE_CHECK =>
               \A j \in 1..Len(mlist) : MoveFrom(mlist[j]) = board.Kings[board.Player]
        /\ OnBoard(board.CheckInfo) =>
               \A j \in 1..Len(mlist) :
                   \/ CapturesChecker(board, mlist[j], board.CheckInfo)
                   \/ Interposes(board, mlist[j])
                   \/ KingEscapes(board, mlist[j])

(* a single check answered by an interposition and by a king move *)
C6_Witness ==
    /\ op.name = "GenerateAllLegalMoves"
    /\ OnBoard(board.CheckInfo)
    /\ \E j \in 1..Len(mlist) :
           /\ MoveFrom(mlist[j]) # board.Kings[board.Player]
           /\ MoveTo(mlist[j]) # board.CheckInfo
           /\ Interposes(board, mlist[j])
    /\ \E j \in 1..Len(mlist) : KingEscapes(board, mlist[j])

(* C7: SetFEN on a string ParseFEN rejects returns the error and leaves
   every field of the Board as it was *)
C7_InvalidFENKeepsBoard ==
    [][(op'.name = "SetFEN" /\ op'.err) => board' = board]_vars

(* a malformed string arrived after moves were generated and made *)
C7_Witness ==
    /\ op.name = "SetFEN" /\ op.err /\ ply > 0
    /\ board.CheckInfo # CHECK_NONE

(* the squares of a piece list, and the playable squares holding piece *)
Listed(l) == {l[j] : j \in 1..Len(l)}
Holding(pos, pieces) == {s \in Playable : pos.Squares[s] \in pieces}

(* the lists and the king squares of pos agree with its squares; no list
   names a square twice *)
Agreement(pos) ==
    \A c \in Colors :
        /\ Listed(pos.Pawns[c]) = Holding(pos, {PAWN + c})
        /\ Listed(pos.Knights[c]) = Holding(pos, {KNIGHT + c})
        /\ Listed(pos.Bishops[c]) = Holding(pos, {BISHOP + c})
        /\ Listed(pos.Rooks[c]) = Holding(pos, {ROOK + c})
        /\ Listed(pos.Queens[c]) = Holding(pos, {QUEEN + c})
        /\ Listed(pos.Sliders[c]) = Holding(pos, {BISHOP + c, ROOK + c, QUEEN + c})
        /\ \A name \in ListNames :
               Len(pos[name][c]) = Cardinality(Listed(pos[name][c]))
        /\ Holding(pos, {KING + c}) = {pos.Kings[c]}

(* C8: after any successful SetFEN calls and any MakeLegalMove calls on
   generated moves, a playable square is in the list of (colour, kind) iff
   it holds that piece, Sliders holds the bishop, rook and queen squares,
   and Kings[c] is the one square holding the king of c *)
C8_ListsAgree == Agreement(board)

(* a pawn has captured a knight and become a rook *)
C8_Witness ==
    /\ op.name = "MakeLegalMove" /\ fen = FEN_PAWN7
    /\ board.Squares[113] = WROOK
    /\ board.Knights[BLACK] = << >>

----------------------------------------------------------------------------
(* the claim about IsSquareAttacked, checked under SpecAttack *)

(* the squares with the square gone emptied *)
Emptied(squares, gone) ==
    [s \in 0..127 |-> IF s = gone THEN EMPTY ELSE squares[s]]

(* a piece of colour side, other than a knight, bishop, rook or queen on
   ignoreSq, attacks target on the squares as they stand *)
AttackedNotFrom(squares, target, ignoreSq, side) ==
    \E s \in Playable :
        /\ RefOwn(squares, s, side)
        /\ ~(s = ignoreSq /\ RefKind(squares[s]) \in {KNIGHT, BISHOP, ROOK, QUEEN})
        /\ RefAttacks(squares, s, target)

(* a bishop, rook or queen of colour side on ignoreSq attacks target, and
   another piece of its kind and colour stands beyond it on the same line *)
BackedFrom(squares, target, ignoreSq, side) ==
    /\ ignoreSq \in Playable
    /\ RefOwn(squares, ignoreSq, side)
    /\ \E step \in RefLines(RefKind(squares[ignoreSq])) :
           /\ target \in RefSeen(squares, ignoreSq, step)
           /\ \E n \in 1..7 :
                  /\ \A j \in 1..n : (ignoreSq - j * step) \in Playable
                  /\ squares[ignoreSq - n * step] = squares[ignoreSq]

(* C10 as stated: IsSquareAttacked(sq, ignoreSq, color) is true iff a piece
   of the opposite colour attacks sq on the board with ignoreSq emptied *)
C10_AsStated ==
    op.name = "IsSquareAttacked" =>
        (op.n = 1 <=> RefAttacked(Emptied(board.Squares, op.arg[2]),
                                  op.arg[1], 1 - op.arg[3]))

(* C10: IsSquareAttacked(sq, ignoreSq, color) is true iff a piece of the
   opposite colour attacks sq on the board as it stands, the attack of a
   knight, bishop, rook or queen standing on ignoreSq counting only when
   another piece of its kind stands beyond it on the same line; the piece
   on ignoreSq keeps blocking lines and a pawn or king on it keeps
   attacking *)
C10_IgnoresListedPiece ==
    op.name = "IsSquareAttacked" =>
        (op.n = 1 <=>
            \/ AttackedNotFrom(board.Squares, op.arg[1], op.arg[2], 1 - op.arg[3])
            \/ BackedFrom(board.Squares, op.arg[1], op.arg[2], 1 - op.arg[3]))

(* the only attacker of sq stands on ignoreSq and the answer is false *)
C10_Witness ==
    /\ op.name = "IsSquareAttacked"
    /\ op.n = 0
    /\ RefAttacked(board.Squares, op.arg[1], 1 - op.arg[3])

----------------------------------------------------------------------------
(* the operations that end with DetectChecksAndPins for the side to move *)
Annotates(call) ==
    \/ call.name \in {"NewBoard", "GenerateAllLegalMoves"}
    \/ call.name = "SetFEN" /\ ~call.err

(* CheckInfo is one of its three kinds of value, and the value the annotator
   computes for the side to move *)
CheckInfoCurrent(pos) ==
    /\ pos.CheckInfo \in {CHECK_NONE, CHECK_DOUBLE_CHECK} \cup Playable
    /\ pos.CheckInfo = DetectChecksAndPins(pos, pos.Player).CheckInfo

(* C11 as it is stated: in every reachable state, after SetFEN and after
   every MakeLegalMove, CheckInfo is CHECK_NONE, the square of the single
   checker or CHECK_DOUBLE_CHECK, the value DetectChecksAndPins would compute
   for the side that is now to move *)
C11_AsStated ==
    CheckInfoCurrent(board)

(* C11: in every reachable state CheckInfo is CHECK_NONE, a playable square
   or CHECK_DOUBLE_CHECK; after SetFEN and after GenerateAllLegalMoves it is
   the value DetectChecksAndPins computes for the side to move; MakeLegalMove
   leaves it as it was *)
C11_CheckInfo ==
    [][/\ board'.CheckInfo \in {CHECK_NONE, CHECK_DOUBLE_CHECK} \cup Playable
       /\ Annotates(op') => CheckInfoCurrent(board')
       /\ op'.name = "MakeLegalMove" => board'.CheckInfo = board.CheckInfo]_vars

(* a move has given check, and CheckInfo still says that nobody is in check *)
C11_Witness ==
    /\ op.name = "MakeLegalMove"
    /\ board.CheckInfo = CHECK_NONE
    /\ IsSquareAttacked(board, board.Kings[board.Player], OTB, board.Player)

----------------------------------------------------------------------------
(* the list holds a move of the king of the side to move by two files, toward
   the h-file (step 1) or toward the a-file (step -1) *)
CastleEmitted(step) ==
    \E j \in 1..Len(mlist) :
        /\ MoveFrom(mlist[j]) = board.Kings[board.Player]
        /\ MoveTo(mlist[j]) = board.Kings[board.Player] + 2 * step

(* the side to move is not in check, holds the right, the squares between
   king and rook are empty, and neither the square the king steps over nor
   the one it lands on is attacked *)
CastleAllowed(pos, right, step, between) ==
    LET king == pos.Kings[pos.Player]
    IN  /\ ~RefInCheck(pos)
        /\ right
        /\ \A s \in between : pos.Squares[s] = EMPTY
        /\ ~RefAttacked(pos.Squares, king + step, 1 - pos.Player)
        /\ ~RefAttacked(pos.Squares, king + 2 * step, 1 - pos.Player)

(* C12: GenerateKingMoves emits the short castle iff the side is not in
   check, CastleShort[color] is set, both squares between king and rook are
   empty and neither of them is attacked; the long castle iff the side is
   not in check, CastleLong[color] is set, the three squares between king
   and rook are empty and the two the king crosses are not attacked: the
   b-file square may be attacked *)
C12_Castling ==
    op.name = "GenerateAllLegalMoves" =>
        LET home == IF board.Player = WHITE THEN 4 ELSE 116
        IN  /\ CastleEmitted(1) <=>
                   CastleAllowed(board, board.CastleShort[board.Player], 1,
                                 {home + 1, home + 2})
            /\ CastleEmitted(-1) <=>
                   CastleAllowed(board, board.CastleLong[board.Player], -1,
                                 {home - 1, home - 2, home - 3})

(* the long castle is in the list while a rook attacks the b-file square *)
C12_Witness ==
    /\ op.name = "GenerateAllLegalMoves"
    /\ fen = FEN_CASTLE_BFILE
    /\ ply = 0
    /\ CastleEmitted(-1)
    /\ RefAttacked(board.Squares, 1, BLACK)

----------------------------------------------------------------------------
(* the list holds the move of a pawn of the side to move from s to the e.p.
   square *)
EpEmitted(s) ==
    /\ board.Squares[s] = PAWN + board.Player
    /\ \E j \in 1..Len(mlist) :
           MoveFrom(mlist[j]) = s /\ MoveTo(mlist[j]) = board.EpSquare

(* a pawn of the side to move stands on s diagonally behind the e.p. square,
   and once it stands on the e.p. square and the pawn it passes is off the
   board, no piece attacks the mover's king *)
EpLegal(pos, s) ==
    LET up == RefUp(pos.Player)
    IN  /\ pos.Squares[s] = PAWN + pos.Player
        /\ pos.EpSquare - s \in {up - 1, up + 1}
        /\ RefSafe(pos.Squares, pos.Player, s, pos.EpSquare, pos.EpSquare - up,
                   OTB, OTB)

(* C13: when EpSquare is a square, the e.p. capture from f is emitted iff a
   pawn of the side to move stands on f diagonally behind EpSquare and the
   mover's king is not attacked on the board with the captured pawn removed
   and the capturing pawn on EpSquare *)
C13_EnPassant ==
    (op.name = "GenerateAllLegalMoves" /\ board.EpSquare # OTB) =>
        \A s \in Playable : EpEmitted(s) <=> EpLegal(board, s)

(* the pawn that gives check is captured en passant in the list *)
C13_Witness ==
    /\ op.name = "GenerateAllLegalMoves"
    /\ fen = FEN_EP_CHECK
    /\ ply = 0
    /\ board.CheckInfo = 51
    /\ EpEmitted(52)

----------------------------------------------------------------------------
(* the squares of a list *)
ListSet(l) == {l[j] : j \in 1..Len(l)}

(* C14: after MakeLegalMove(m), EpSquare is the square jumped over if m was
   a double push of a pawn from its base rank, and OTB after every other
   move; an e.p. capture takes the enemy pawn one enemy push behind the
   destination, and nothing else, off the board and off the enemy's pawn
   list *)
C14_EpSquare ==
    [][op'.name = "MakeLegalMove" =>
        LET from == MoveFrom(op'.arg[1])
            to == MoveTo(op'.arg[1])
            side == board.Player
            up == RefUp(side)
            pawn == board.Squares[from] = PAWN + side
            double == /\ pawn
                      /\ from \div 16 = (IF side = WHITE THEN 1 ELSE 6)
                      /\ to = from + 2 * up
            passing == pawn /\ to = board.EpSquare /\ to - from \in {up - 1, up + 1}
            gone == to - up
        IN  /\ board'.EpSquare = IF double THEN from + up ELSE OTB
            /\ passing =>
                  /\ board.Squares[gone] = PAWN + (1 - side)
                  /\ \A s \in Playable :
                        board'.Squares[s] =
                            CASE s = to -> PAWN + side
                              [] s \in {from, gone} -> EMPTY
                              [] OTHER -> board.Squares[s]
                  /\ gone \in ListSet(board.Pawns[1 - side])
                  /\ ListSet(board'.Pawns[1 - side])
                         = ListSet(board.Pawns[1 - side]) \ {gone}
                  /\ Len(board'.Pawns[1 - side]) = Len(board.Pawns[1 - side]) - 1
                  /\ \A name \in {"Sliders", "Queens", "Rooks", "Bishops", "Knights"} :
                        board'[name][1 - side] = board[name][1 - side]]_vars

(* a pawn has captured en passant: it stands on the e.p. square, the pawn it
   passed is gone, and there is no e.p. square any more *)
C14_Witness ==
    /\ op.name = "MakeLegalMove"
    /\ fen = FEN_EP_CHECK
    /\ ply = 1
    /\ board.Squares[35] = BPAWN
    /\ board.Squares[51] = EMPTY
    /\ board.Pawns[WHITE] = << >>
    /\ board.EpSquare = OTB

----------------------------------------------------------------------------
(* the home squares of the rooks: h1, h8, a1, a8 *)
ShortRookHome(side) == IF side = WHITE THEN 7 ELSE 119
LongRookHome(side) == IF side = WHITE THEN 0 ELSE 112

(* C15: MakeLegalMove clears both rights of the mover when the king moves,
   the mover's short (long) right when a rook leaves the mover's short
   (long) rook home square, the opponent's short (long) right when a
   capture lands on the opponent's short (long) rook home square; it
   changes no other right, and sets none *)
C15_CastlingRights ==
    [][op'.name = "MakeLegalMove" =>
        LET from == MoveFrom(op'.arg[1])
            to == MoveTo(op'.arg[1])
            side == board.Player
            kind == RefKind(board.Squares[from])
            capture == board.Squares[to] # EMPTY
            cleared(c, rookHome) ==
                \/ c = side /\ kind = KING
                \/ c = side /\ kind = ROOK /\ from = rookHome
                \/ c = 1 - side /\ capture /\ to = rookHome
        IN  \A c \in Colors :
               /\ board'.CastleShort[c] =
                      (board.CastleShort[c] /\ ~cleared(c, ShortRookHome(c)))
               /\ board'.CastleLong[c] =
                      (board.CastleLong[c] /\ ~cleared(c, LongRookHome(c)))]_vars

(* the rook from a1 has captured the rook on a8: both long rights are gone,
   both short rights are kept *)
C15_Witness ==
    /\ op.name = "MakeLegalMove"
    /\ fen = FEN_CASTLE_BOTH
    /\ ply = 1
    /\ board.Squares[112] = WROOK
    /\ board.CastleLong = Array([c \in Colors |-> FALSE])
    /\ board.CastleShort = Array([c \in Colors |-> TRUE])

----------------------------------------------------------------------------
(* C16: every MakeLegalMove gives the move to the other player, adds exactly
   1 to MoveNumber modulo 2^16 and leaves DrawCounter as it was, whatever
   the move *)
C16_Counters ==
    [][op'.name = "MakeLegalMove" =>
        /\ board'.Player = 1 - board.Player
        /\ board'.MoveNumber = (board.MoveNumber + 1) % 65536
        /\ board'.DrawCounter = board.DrawCounter]_vars

(* a pawn has moved in the position of move 65535 with a half-move clock of
   7: the move number is 0, the clock is 7 *)
C16_Witness ==
    /\ op.name = "MakeLegalMove"
    /\ fen = FEN_COUNTERS
    /\ ply = 1
    /\ board.Squares[52] = WPAWN
    /\ board.Player = BLACK
    /\ board.MoveNumber = 0
    /\ board.DrawCounter = 7

----------------------------------------------------------------------------
(* the squares of the enemy knights, pawns, bishops, rooks and queens that
   attack the king of the side to move *)
Checkers(pos) ==
    {s \in Playable :
        /\ RefOwn(pos.Squares, s, 1 - pos.Player)
        /\ RefKind(pos.Squares[s]) \in {KNIGHT, PAWN, BISHOP, ROOK, QUEEN}
        /\ RefAttacks(pos.Squares, s, pos.Kings[pos.Player])}

(* C17: after DetectChecksAndPins for the side to move, CheckInfo is
   CHECK_NONE iff no enemy knight, pawn, bishop, rook or queen attacks the
   king, the checker's square iff exactly one does, CHECK_DOUBLE_CHECK iff
   two or more do; CheckInfo # CHECK_NONE agrees with IsSquareAttacked on
   the king's square *)
C17_Annotator ==
    Annotates(op) =>
        /\ board.CheckInfo = CHECK_NONE <=> Checkers(board) = {}
        /\ board.CheckInfo \in Playable <=> Cardinality(Checkers(board)) = 1
        /\ board.CheckInfo \in Playable => Checkers(board) = {board.CheckInfo}
        /\ board.CheckInfo = CHECK_DOUBLE_CHECK <=> Cardinality(Checkers(board)) >= 2
        /\ board.CheckInfo # CHECK_NONE <=>
               IsSquareAttacked(board, board.Kings[board.Player], OTB, board.Player)

(* a position with two checkers was annotated *)
C17_Witness ==
    /\ op.name = "SetFEN" /\ ~op.err
    /\ fen = FEN_DOUBLE
    /\ Cardinality(Checkers(board)) = 2
    /\ board.CheckInfo = CHECK_DOUBLE_CHECK

----------------------------------------------------------------------------
(* the enemy sliders that check the king of the side to move, each with the
   step that leads from it to the king *)
CheckRays(pos) ==
    {r \in Playable \X RefKingSteps :
        /\ RefOwn(pos.Squares, r[1], 1 - pos.Player)
        /\ r[2] \in RefLines(RefKind(pos.Squares[r[1]]))
        /\ pos.Kings[pos.Player] \in RefSeen(pos.Squares, r[1], r[2])}

(* the empty squares between the slider on s and the king *)
RayBetween(pos, s, step) ==
    RefSeen(pos.Squares, s, step) \ {pos.Kings[pos.Player]}

(* the slider's square and the empty squares between it and the king carry
   CHECK; the square one step beyond the king, if on the board, carries
   FORBIDDEN_ESCAPE *)
RayMarked(pos, s, step) ==
    /\ \A t \in {s} \cup RayBetween(pos, s, step) :
           IsSet(pos.Squares[ToInfoIndex(t)], INFO_MASK_CHECK)
    /\ (pos.Kings[pos.Player] + step) \in Playable =>
           IsSet(pos.Squares[ToInfoIndex(pos.Kings[pos.Player] + step)],
                 INFO_MASK_FORBIDDEN_ESCAPE)

(* C18: after DetectChecksAndPins, for every enemy slider that checks the
   king, its square and the empty squares between it and the king carry
   CHECK and the square one step beyond the king carries FORBIDDEN_ESCAPE,
   for both checkers of a double check too; the king moves generated never
   go to a square between a checking slider and the king or to the square
   beyond the king *)
C18_CheckRays ==
    Annotates(op) =>
        \A r \in CheckRays(board) :
            /\ RayMarked(board, r[1], r[2])
            /\ \A j \in 1..Len(mlist) :
                   MoveFrom(mlist[j]) = board.Kings[board.Player] =>
                       MoveTo(mlist[j]) \notin
                           RayBetween(board, r[1], r[2])
                               \cup {board.Kings[board.Player] + r[2]}

(* a bishop and a rook check the king: both rays are marked, and the king
   has moves *)
C18_Witness ==
    /\ op.name = "GenerateAllLegalMoves"
    /\ fen = FEN_DOUBLE_PIN
    /\ ply = 0
    /\ board.CheckInfo = CHECK_DOUBLE_CHECK
    /\ CheckRays(board) = {<<3, 1>>, <<49, -15>>}
    /\ IsSet(board.Squares[ToInfoIndex(5)], INFO_MASK_FORBIDDEN_ESCAPE)
    /\ Len(mlist) = 3

----------------------------------------------------------------------------
(* the pins of the side to move: an enemy bishop, rook or queen on r[1], the
   step r[2] of its line toward the king, and between it and the king one
   piece only, a piece of the side to move *)
PinnedBy(pos, s, step) ==
    {p \in RefSeen(pos.Squares, s, step) :
        /\ RefOwn(pos.Squares, p, pos.Player)
        /\ p # pos.Kings[pos.Player]
        /\ pos.Kings[pos.Player] \in RefSeen(pos.Squares, p, step)}

PinRays(pos) ==
    {r \in Playable \X RefKingSteps :
        /\ RefOwn(pos.Squares, r[1], 1 - pos.Player)
        /\ r[2] \in RefLines(RefKind(pos.Squares[r[1]]))
        /\ PinnedBy(pos, r[1], r[2]) # {}}

PinnedSquares(pos) == UNION {PinnedBy(pos, r[1], r[2]) : r \in PinRays(pos)}

(* the pin marker on a square *)
Marker(pos, s) == Pinval(pos.Squares[ToInfoIndex(s)])

(* the pinner's square, the empty squares of the ray and the pinned piece's
   square *)
PinRaySquares(pos, r) == {r[1]} \cup RefSeen(pos.Squares, r[1], r[2])

(* where the piece on p could go if it were not pinned: the squares its kind
   reaches on this board, and in check those only that capture the checker
   or carry CHECK *)
PieceTargets(pos, p) ==
    LET side == pos.Player
        up == RefUp(side)
        home == p \div 16 = (IF side = WHITE THEN 1 ELSE 6)
        free(t) == t \in Playable /\ pos.Squares[t] = EMPTY
    IN  IF RefKind(pos.Squares[p]) # PAWN
          THEN {t \in Playable : /\ ~RefOwn(pos.Squares, t, side)
                                 /\ RefAttacks(pos.Squares, p, t)}
          ELSE {t \in {p + up} : free(t)}
               \cup {t \in {p + 2 * up} : home /\ free(p + up) /\ free(t)}
               \cup {t \in {p + up - 1, p + up + 1} \cap Playable :
                        \/ RefOwn(pos.Squares, t, 1 - side)
                        \/ t = pos.EpSquare}

Reachable(pos, p) ==
    {t \in PieceTargets(pos, p) :
        \/ pos.CheckInfo = CHECK_NONE
        \/ /\ pos.CheckInfo \in Playable
           /\ \/ t = pos.CheckInfo
              \/ IsSet(pos.Squares[ToInfoIndex(t)], INFO_MASK_CHECK)
              \/ /\ pos.Squares[p] = PAWN + pos.Player
                 /\ t = pos.EpSquare
                 /\ t - RefUp(pos.Player) = pos.CheckInfo}

(* the destinations of the moves of the list that start on p *)
Emitted(p) == {MoveTo(mlist[j]) : j \in {i \in 1..Len(mlist) : MoveFrom(mlist[i]) = p}}

(* a piece that carries a pin marker is pinned *)
MarkedArePinned(pos) ==
    \A p \in Playable :
        (RefOwn(pos.Squares, p, pos.Player) /\ Marker(pos, p) # 0) =>
            p \in PinnedSquares(pos)

(* a pinned piece carries a pin marker *)
PinnedAreMarked(pos) ==
    \A p \in PinnedSquares(pos) : Marker(pos, p) # 0

(* the squares of a marked pin ray carry one marker, marked rays carry
   different markers from 1..8 *)
PinRaysMarked(pos) ==
    LET marked == {r \in PinRays(pos) :
                      \E p \in PinnedBy(pos, r[1], r[2]) : Marker(pos, p) # 0}
    IN  /\ \A r \in marked :
               /\ Marker(pos, r[1]) \in 1..8
               /\ \A t \in PinRaySquares(pos, r) : Marker(pos, t) = Marker(pos, r[1])
        /\ \A r1, r2 \in marked : r1 # r2 => Marker(pos, r1[1]) # Marker(pos, r2[1])

(* the moves of a pinned piece in the list go to the squares it could reach
   that carry its own marker *)
PinnedMovesOnRay(pos) ==
    \A p \in PinnedSquares(pos) :
        Emitted(p) = {t \in Reachable(pos, p) : Marker(pos, t) = Marker(pos, p)}

(* C19 as it is stated: after DetectChecksAndPins a piece of the side to
   move carries a pin marker iff it is the only piece between its king and
   an enemy bishop, rook or queen that moves along that line; the squares
   of the ray carry one marker, different rays different markers from 1..8,
   and a pinned piece's moves go exactly to its otherwise reachable squares
   with its own marker *)
C19_AsStated ==
    Annotates(op) =>
        /\ MarkedArePinned(board)
        /\ PinnedAreMarked(board)
        /\ PinRaysMarked(board)
        /\ op.name = "GenerateAllLegalMoves" => PinnedMovesOnRay(board)

(* C19: after DetectChecksAndPins a piece of the side to move that carries a
   pin marker is the only piece between its king and an enemy bishop, rook
   or queen that moves along that line, and unless CheckInfo is
   CHECK_DOUBLE_CHECK every such piece carries one; the squares of a marked
   ray carry one marker, different rays different markers from 1..8, and a
   pinned piece's moves go exactly to its otherwise reachable squares with
   its own marker *)
C19_PinMarks ==
    Annotates(op) =>
        /\ MarkedArePinned(board)
        /\ board.CheckInfo # CHECK_DOUBLE_CHECK => PinnedAreMarked(board)
        /\ PinRaysMarked(board)
        /\ op.name = "GenerateAllLegalMoves" => PinnedMovesOnRay(board)

(* three pins with the markers 1, 2 and 3: the rook moves along its file,
   the knight and the pawn do not move *)
C19_Witness ==
    /\ op.name = "GenerateAllLegalMoves"
    /\ fen = FEN_PINS
    /\ ply = 0
    /\ PinnedSquares(board) = {3, 19, 52}
    /\ Marker(board, 52) = 1 /\ Marker(board, 19) = 2 /\ Marker(board, 3) = 3
    /\ Emitted(52) = {20, 36, 68, 84, 100, 116}
    /\ Emitted(3) = {} /\ Emitted(19) = {}

----------------------------------------------------------------------------
(* C20: when GenerateAllLegalMoves returns, every playable square, every
   piece list, Kings, Player, the castling rights, EpSquare, MoveNumber and
   DrawCounter have the values they had at entry; the info bytes, CheckInfo
   and the move list may change *)
C20_GenerationKeepsPosition ==
    [][op'.name = "GenerateAllLegalMoves" => SamePosition(board, board')]_vars

(* an en-passant capture was tried on the board and found illegal, a check
   was found and marked, and the position is the one that was loaded *)
C20_Witness ==
    /\ op.name = "GenerateAllLegalMoves"
    /\ fen = FEN_EP_RANK
    /\ ply = 0
    /\ board.EpSquare = 35
    /\ board.Squares[51] = WPAWN
    /\ board.Squares[52] = BPAWN
    /\ ~EpEmitted(52)
    /\ Len(mlist) > 0
    /\ SamePosition(SetFEN(board, fen).b, board)

----------------------------------------------------------------------------
(* the geometry of two playable squares, read off their ranks and files *)
Gap(x, y) == IF x >= y THEN x - y ELSE y - x
RankGap(from, to) == Gap(from \div 16, to \div 16)
FileGap(from, to) == Gap(from % 16, to % 16)

Adjacent(from, to) ==
    from # to /\ RankGap(from, to) <= 1 /\ FileGap(from, to) <= 1
KnightJump(from, to) == {RankGap(from, to), FileGap(from, to)} = {1, 2}
OnDiagonal(from, to) == from # to /\ RankGap(from, to) = FileGap(from, to)
OnRankOrFile(from, to) ==
    from # to /\ (RankGap(from, to) = 0 \/ FileGap(from, to) = 0)

(* the deltas no pair of playable squares produces *)
Unwritten == (0..239) \ {Diff(f, t) : f \in Playable, t \in Playable}

(* C21: for every pair of playable squares (from, to) and d = 0x77 + from
   - to, SQUARE_DIFFS[d] contains KING iff the squares are adjacent, KNIGHT
   iff they are a knight's jump apart, BISHOP iff they are distinct squares
   of a diagonal, ROOK iff they are distinct squares of a rank or file,
   QUEEN iff it contains BISHOP or ROOK, and nothing else; it is empty for
   from = to, for a pair in none of these relations and for a delta no pair
   produces; the entry is what the pass of this very pair computed *)
C21_SquareDiffs ==
    op.name = "Diff" =>
        LET from == op.arg[1]
            to == op.arg[2]
            bits == op.results
        IN  /\ bits = SQUARE_DIFFS[U8(119 + from - to)]
            /\ Contains(bits, KING) <=> Adjacent(from, to)
            /\ Contains(bits, KNIGHT) <=> KnightJump(from, to)
            /\ Contains(bits, BISHOP) <=> OnDiagonal(from, to)
            /\ Contains(bits, ROOK) <=> OnRankOrFile(from, to)
            /\ Contains(bits, QUEEN) <=>
                   (Contains(bits, BISHOP) \/ Contains(bits, ROOK))
            /\ BitAnd(bits, 255 - (KING + KNIGHT + BISHOP + ROOK + QUEEN)) = 0
            /\ from = to => bits = 0
            /\ \A d \in Unwritten : SQUARE_DIFFS[d] = 0
            /\ bits = InspectPair(from, to).pbits

(* e1 and f2: adjacent on a diagonal, the entry holds KING, BISHOP and
   QUEEN *)
C21_Witness ==
    /\ op.name = "Diff"
    /\ op.arg = <<4, 21>>
    /\ op.results = KING + BISHOP + QUEEN
    /\ SQUARE_DIFFS[102] = op.results
----------------------------------------------------------------------------
(* the squares the walk of IsSqAttackedBySlider reads, from stepSq on: it
   steps over empty squares and ends on the first square that is not empty;
   -1 stands for a read outside the 128 squares of the array, or for a walk
   of more steps than the array has squares *)
RECURSIVE WalkVisited(_, _, _, _)
WalkVisited(squares, stepSq, diffdir, fuel) ==
    IF fuel = 0 \/ stepSq \notin 0..127 THEN {-1}
    ELSE IF IsEmpty(squares[stepSq])
      THEN {stepSq} \cup WalkVisited(squares, U8(I8(stepSq) + diffdir), diffdir, fuel - 1)
    ELSE {stepSq}

(* the squares the walk of DetectSliderChecksAndPins reads: it also steps
   over the first piece of the king's colour, and ends on the second one or
   on an enemy piece *)
RECURSIVE PinWalkVisited(_, _, _, _, _, _)
PinWalkVisited(squares, color, stepSq, diffdir, marked, fuel) ==
    IF fuel = 0 \/ stepSq \notin 0..127 THEN {-1}
    ELSE IF IsEmpty(squares[stepSq]) \/ (HasColor(squares[stepSq], color) /\ ~marked)
      THEN {stepSq} \cup PinWalkVisited(squares, color, U8(I8(stepSq) + diffdir), diffdir,
                                        marked \/ ~IsEmpty(squares[stepSq]), fuel - 1)
    ELSE {stepSq}

(* the squares after from up to to, by steps of s *)
RaySquares(from, to, s) ==
    {from + j * s : j \in {h \in 1..7 : \E k \in h..7 : from + k * s = to}}

(* a bishop, rook or queen stands on sq, of a kind the entry bits names *)
SliderOn(pos, sq, bits) ==
    /\ BitAnd(pos.Squares[sq], PIECE_MASK) \in {BISHOP, ROOK, QUEEN}
    /\ Contains(bits, BitAnd(pos.Squares[sq], PIECE_MASK))

(* C22: for every pair of distinct playable squares (from, to) of a rank,
   file or diagonal, DIFF_DIRS[0x77 + from - to] is the step s, one of +-1,
   +-16, +-15, +-17, with from + k*s = to for a k in 1..7 and every square
   on the way playable; so the walks of IsSqAttackedBySlider and
   DetectSliderChecksAndPins from a square toward a slider read playable
   squares of that ray only and end on the slider's square or on an
   occupied square before it *)
C22_DiffDirs ==
    (/\ op.name = "Diff"
     /\ OnDiagonal(op.arg[1], op.arg[2]) \/ OnRankOrFile(op.arg[1], op.arg[2])) =>
        LET from == op.arg[1]
            to == op.arg[2]
            s == op.n
            ray == RaySquares(from, to, s)
        IN  /\ s = DIFF_DIRS[U8(119 + from - to)]
            /\ s \in {1, -1, 16, -16, 15, 17, -15, -17}
            /\ to \in ray
            /\ ray \subseteq Playable
            /\ SliderOn(board, to, op.results) =>
                   /\ WalkVisited(board.Squares, from + s, s, 128) \subseteq ray
                   /\ PinWalkVisited(board.Squares, Flip(PieceColor(board.Squares[to])),
                                     from + s, s, FALSE, 128) \subseteq ray

(* the white king on e1 and the black rook on e7: six steps of 16, the walks
   read e2..e7 and end on the rook *)
C22_Witness ==
    /\ op.name = "Diff"
    /\ fen = FEN_BATTERY
    /\ op.arg = <<4, 100>>
    /\ op.n = 16
    /\ board.Squares[100] = BROOK
    /\ WalkVisited(board.Squares, 20, 16, 128) = {20, 36, 52, 68, 84, 100}
    /\ PinWalkVisited(board.Squares, WHITE, 20, 16, FALSE, 128) = {20, 36, 52, 68, 84, 100}
----------------------------------------------------------------------------
(* the home square of the king: e1, e8 *)
KingHome(side) == IF side = WHITE THEN 4 ELSE 116

(* a castling right of pos implies the king on its home square and a rook of
   that colour on the rook home square of that side *)
RightsAtHome(pos) ==
    \A c \in Colors :
        /\ pos.CastleShort[c] =>
               /\ pos.Kings[c] = KingHome(c)
               /\ pos.Squares[KingHome(c)] = KING + c
               /\ pos.Squares[ShortRookHome(c)] = ROOK + c
        /\ pos.CastleLong[c] =>
               /\ pos.Kings[c] = KingHome(c)
               /\ pos.Squares[KingHome(c)] = KING + c
               /\ pos.Squares[LongRookHome(c)] = ROOK + c

(* the move m of the side to move in pos is a king move of two files *)
IsCastle(pos, m) ==
    /\ MoveFrom(m) = pos.Kings[pos.Player]
    /\ MoveTo(m) \in {MoveFrom(m) + 2, MoveFrom(m) - 2}

(* the square the rook of the castling move m comes from, the square it
   goes to *)
CastleRookFrom(pos, m) ==
    IF MoveTo(m) > MoveFrom(m) THEN ShortRookHome(pos.Player)
    ELSE LongRookHome(pos.Player)
CastleRookTo(m) == IF MoveTo(m) > MoveFrom(m) THEN MoveFrom(m) + 1 ELSE MoveFrom(m) - 1

(* C23: in every position reached from the starting position, or from a FEN
   whose rights agree with its placement, by MakeLegalMove on generated
   moves, a castling right implies the king on its home square and a rook
   of its colour on the rook home square of that side; a generated castling
   move starts on the king's home square, and the rook MakeLegalMove moves
   for it stood on its home square and was in the rook list *)
C23_RightsAtHome ==
    [][/\ RightsAtHome(board)
       /\ RightsAtHome(board')
       /\ op'.name = "GenerateAllLegalMoves" =>
              \A j \in 1..Len(mlist') :
                  IsCastle(board', mlist'[j]) =>
                      /\ MoveFrom(mlist'[j]) = KingHome(board'.Player)
                      /\ board'.Squares[CastleRookFrom(board', mlist'[j])]
                             = ROOK + board'.Player
       /\ (op'.name = "MakeLegalMove" /\ IsCastle(board, op'.arg[1])) =>
              LET m == op'.arg[1]
                  us == board.Player
                  rookFrom == CastleRookFrom(board, m)
                  rookTo == CastleRookTo(m)
              IN  /\ board.Squares[rookFrom] = ROOK + us
                  /\ rookFrom \in Listed(board.Rooks[us])
                  /\ board'.Squares[rookFrom] = EMPTY
                  /\ board'.Squares[rookTo] = ROOK + us
                  /\ Listed(board'.Rooks[us])
                         = (Listed(board.Rooks[us]) \ {rookFrom}) \cup {rookTo}
                  /\ Len(board'.Rooks[us]) = Len(board.Rooks[us])]_vars

(* white has castled long while black keeps both rights: the rook from a1
   stands on d1, the black king and rooks are at home *)
C23_Witness ==
    /\ op.name = "MakeLegalMove"
    /\ fen = FEN_CASTLE_BOTH
    /\ ply = 1
    /\ MoveFrom(op.arg[1]) = 4 /\ MoveTo(op.arg[1]) = 2
    /\ board.Kings[WHITE] = 2
    /\ board.Squares[3] = WROOK /\ board.Squares[0] = EMPTY
    /\ board.CastleShort[BLACK] /\ board.CastleLong[BLACK]
    /\ board.Squares[116] = BKING
    /\ board.Squares[112] = BROOK /\ board.Squares[119] = BROOK
----------------------------------------------------------------------------
(* C24 as it is stated: DIFF_DIRS[d] is 0 for every delta that is not a
   rank, file or diagonal line between two playable squares: for the delta
   of a square to itself, of a knight's jump, of a pair no piece connects,
   and for a delta no pair produces *)
C24_AsStated ==
    /\ \A d \in Unwritten : DIFF_DIRS[d] = 0
    /\ (/\ op.name = "Diff"
        /\ ~OnDiagonal(op.arg[1], op.arg[2])
        /\ ~OnRankOrFile(op.arg[1], op.arg[2])) => op.n = 0

(* h8 and h8: the entry of the delta 0 holds -1, the step of the pass of
   (h8, g8) before the last pass *)
C24_Witness ==
    /\ op.name = "Diff"
    /\ op.arg = <<119, 119>>
    /\ op.results = 0
    /\ op.n = -1
    /\ InspectPair(119, 118).dir = -1
    /\ ~InspectPair(119, 119).set
====
